---- MODULE Spec2Model ----
(***************************************************************************)
(* The archetype storage of the ECS (src/ecs/storage.rs, archetype.rs,     *)
(* query.rs) as a state machine.  One action per public operation of       *)
(* Storage and of the Query trait; every private helper is an operator     *)
(* that maps a storage value to the storage value the helper leaves.       *)
(*                                                                         *)
(* A component type (TypeId) is a number; the order of the numbers is the  *)
(* order of TypeId.  A column (Box<dyn ComponentVec>) is its element type  *)
(* and its elements.  An element carries, besides the component value, the *)
(* entity it was attached for: the code never reads that tag, it is        *)
(* history that travels with the value.                                    *)
(*                                                                         *)
(* A panic ends the program and with it the storage: the failing call      *)
(* records the message in `failure`, every other variable is back at its   *)
(* initial value, and no call follows.                                     *)
(* Arithmetic is that of a build with overflow checks (the profile the     *)
(* tests run under): `len() - 1` of an empty column panics.                *)
(***************************************************************************)
EXTENDS Integers, Sequences, FiniteSets, TLC

\* Entity ids are 0 .. MaxEntity.
MaxEntity == 2
\* Component types are 1 .. NumTypes.
NumTypes == 2
\* Component values are 1 .. NumValues.
NumValues == 2
\* The program makes at most MaxCalls calls.
MaxCalls == 5
\* A query asks for 1 .. MaxQueryTypes types.
MaxQueryTypes == 2

Entities == 0 .. MaxEntity
TypeIds == 1 .. NumTypes
\* The component types of a longer program: those of TypeIds and one more,
\* which no call names before an entity was removed (SpecAfterRemoval).
AllTypeIds == 1 .. NumTypes + 1
Values == 1 .. NumValues

\* Option::None of an ArchetypeId, and of a component value.
None == -1

NoPanic == "none"
MESSAGE_DUPLICATE_COMPONENT_TYPE ==
    "Component types must be different when querying more than one component type"
PanicInvalidEntityArchetype ==
    "Internal storage error. Entity index points to invalid archetype id."
PanicInvalidArchetypeId == "Internal storage error. Invalid Archetype ID."
PanicExpectedArchetype == "Expected entity with existing archetype."
PanicEntityNotFound == "Entity not found."
PanicComponentTypeNotFound == "Component type not found."
PanicArchetypeNotFound == "Archetype not found."
PanicTypeMismatch == "Type mismatch during migration"
PanicAssertNewFromAdd == "assertion failed: new_from_add"
PanicIndexOutOfBounds == "index out of bounds"
PanicMissingKey == "HashMap index: key not found"
PanicUnwrapNone == "called Option::unwrap on a None value"
PanicSubtractOverflow == "attempt to subtract with overflow"

VARIABLES
    archetypes,            \* Storage.archetypes: ArchetypeId -> Archetype
    component_index,       \* Storage.component_index: TypeId -> Vec<ArchetypeId>
    entity_index,          \* Storage.entity_index: EntityId -> EntityRecord
    archetype_id_counter,  \* Storage.archetype_id_counter
    failure,               \* the panic that ended the program, or NoPanic
    ret,                   \* what the last call returned: the tuples a query yielded
    attached,              \* history: the value last attached to (entity, type), or None
    alive,                 \* history: the entities attached to and not removed since
    calls                  \* the number of calls made so far

vars == <<archetypes, component_index, entity_index, archetype_id_counter,
          failure, ret, attached, alive, calls>>

----------------------------------------------------------------------------
\* HashMap and Vec primitives.

Put(f, k, v) == [x \in (DOMAIN f) \cup {k} |-> IF x = k THEN v ELSE f[x]]

Del(f, k) == [x \in (DOMAIN f) \ {k} |-> f[x]]

EmptyMap == [x \in {} |-> None]

Range(s) == {s[i] : i \in 1 .. Len(s)}

\* A Vec::remove that takes the last element whatever the index.
VecRemove_last(s, index) == SubSeq(s, 1, Len(s) - 1)

\* Vec::remove(index), index counted from 0.
VecRemove(s, index) ==
    [k \in 1 .. (Len(s) - 1) |-> IF k <= index THEN s[k] ELSE s[k + 1]]

\* Vec::retain(|x| x != value).
RECURSIVE Retain(_, _)
Retain(s, value) ==
    IF s = <<>> THEN <<>>
    ELSE IF Head(s) = value THEN Retain(Tail(s), value)
    ELSE <<Head(s)>> \o Retain(Tail(s), value)

\* Iterator::position: the first index (from 1) whose element is x, 0 if none.
RECURSIVE Position(_, _)
Position(s, x) ==
    IF s = <<>> THEN 0
    ELSE IF Head(s) = x THEN 1
    ELSE LET p == Position(Tail(s), x) IN IF p = 0 THEN 0 ELSE p + 1

\* All orders in which the elements of a finite set can be iterated.
RECURSIVE Orders(_)
Orders(S) ==
    IF S = {} THEN {<<>>}
    ELSE UNION {{<<x>> \o o : o \in Orders(S \ {x})} : x \in S}

\* ComponentVec::len
ColLen(column) == Len(column.data)

\* A new_empty that clones the column with its elements.
new_empty_keeping_data(column) == column

\* ComponentVec::new_empty
new_empty(column) == [ty |-> column.ty, data |-> <<>>]

\* Vec::swap_remove(index), index counted from 0 and within bounds: the last
\* element takes the place of the removed one.
SwapRemoveSeq(s, index) ==
    [k \in 1 .. (Len(s) - 1) |-> IF k = index + 1 THEN s[Len(s)] ELSE s[k]]

\* ComponentVec::swap_remove
swap_remove(column, index) ==
    [column EXCEPT !.data = SwapRemoveSeq(column.data, index)]

\* A migrate_element that takes the element out with Vec::remove: the
\* elements after it move down by one and keep their order.
migrate_element_shifting(column, index, other) ==
    IF other.ty = column.ty
    THEN [src |-> [column EXCEPT !.data =
                      [k \in 1 .. (Len(column.data) - 1) |->
                          IF k <= index THEN column.data[k] ELSE column.data[k + 1]]],
          tgt |-> [other EXCEPT !.data = Append(other.data, column.data[index + 1])],
          panic |-> NoPanic]
    ELSE [src |-> column, tgt |-> other, panic |-> PanicTypeMismatch]

\* ComponentVec::migrate_element: the source column after the call, the target
\* column after the call, and the panic of a target of another element type.
migrate_element(column, index, other) ==
    IF other.ty = column.ty
    THEN [src |-> swap_remove(column, index),
          tgt |-> [other EXCEPT !.data = Append(other.data, column.data[index + 1])],
          panic |-> NoPanic]
    ELSE [src |-> swap_remove(column, index), tgt |-> other, panic |-> PanicTypeMismatch]

----------------------------------------------------------------------------
\* Archetype (archetype.rs).  An archetype is [id, component_types, types].

\* sort_by_key(|a| a.element_type_id()): a stable sort of columns by type.
RECURSIVE InsertColumn(_, _)
InsertColumn(sorted, column) ==
    IF sorted = <<>> THEN <<column>>
    ELSE IF column.ty < Head(sorted).ty THEN <<column>> \o sorted
    ELSE <<Head(sorted)>> \o InsertColumn(Tail(sorted), column)

RECURSIVE SortColumns(_)
SortColumns(columns) ==
    IF columns = <<>> THEN <<>>
    ELSE InsertColumn(SortColumns(SubSeq(columns, 1, Len(columns) - 1)),
                      columns[Len(columns)])

\* types.sort()
RECURSIVE InsertType(_, _)
InsertType(sorted, t) ==
    IF sorted = <<>> THEN <<t>>
    ELSE IF t < Head(sorted) THEN <<t>> \o sorted
    ELSE <<Head(sorted)>> \o InsertType(Tail(sorted), t)

RECURSIVE SortTypes(_)
SortTypes(types) ==
    IF types = <<>> THEN <<>>
    ELSE InsertType(SortTypes(SubSeq(types, 1, Len(types) - 1)), types[Len(types)])

\* The position (from 1) of the first column of element type t, 0 if none.
ColumnPosition(columns, t) ==
    IF \E i \in 1 .. Len(columns) : columns[i].ty = t
    THEN CHOOSE i \in 1 .. Len(columns) :
            /\ columns[i].ty = t
            /\ \A k \in 1 .. (i - 1) : columns[k].ty # t
    ELSE 0

\* A new_from_add without the two sorts: the added column and the added type
\* stay last.
new_from_add_unsorted(from_archetype, t, id) ==
    LET emptied == [i \in 1 .. Len(from_archetype.component_types) |->
                        new_empty(from_archetype.component_types[i])]
    IN  IF ColumnPosition(emptied, t) # 0
        THEN [panic |-> PanicAssertNewFromAdd]
        ELSE [panic |-> NoPanic,
              archetype |->
                [id |-> id,
                 component_types |-> Append(emptied, [ty |-> t, data |-> <<>>]),
                 types |-> Append(from_archetype.types, t)]]

\* Archetype::new_from_add::<t>(from_archetype, id)
new_from_add(from_archetype, t, id) ==
    LET emptied == [i \in 1 .. Len(from_archetype.component_types) |->
                        new_empty(from_archetype.component_types[i])]
    IN  IF ColumnPosition(emptied, t) # 0
        THEN [panic |-> PanicAssertNewFromAdd]
        ELSE [panic |-> NoPanic,
              archetype |->
                [id |-> id,
                 component_types |->
                    SortColumns(Append(emptied, [ty |-> t, data |-> <<>>])),
                 types |-> SortTypes(Append(from_archetype.types, t))]]

\* Archetype::new_from_remove::<t>(from_archetype, id)
new_from_remove(from_archetype, t, id) ==
    LET emptied == [i \in 1 .. Len(from_archetype.component_types) |->
                        new_empty(from_archetype.component_types[i])]
        target_type_index == ColumnPosition(emptied, t) - 1
    IN  IF target_type_index < 0
        THEN [panic |-> PanicComponentTypeNotFound]
        ELSE IF target_type_index >= Len(from_archetype.types)
        THEN [panic |-> PanicIndexOutOfBounds]
        ELSE [panic |-> NoPanic,
              archetype |->
                [id |-> id,
                 component_types |-> VecRemove(emptied, target_type_index),
                 types |-> VecRemove(from_archetype.types, target_type_index)]]

\* Archetype::push_component::<t>(component)
push_component(archetype, t, component) ==
    LET p == ColumnPosition(archetype.component_types, t)
    IN  IF p = 0
        THEN [panic |-> PanicComponentTypeNotFound]
        ELSE [panic |-> NoPanic,
              archetype |->
                [archetype EXCEPT !.component_types[p].data = Append(@, component)]]

\* The loop of align_and_migrate_archetypes from cursors i and j (from 0).
RECURSIVE MigrateFrom(_, _, _, _, _)
MigrateFrom(source, target, source_entity_row, i, j) ==
    IF ~(i < Len(source.types) /\ j < Len(target.types))
    THEN [source |-> source, target |-> target, panic |-> NoPanic]
    ELSE IF source.types[i + 1] < target.types[j + 1]
    THEN MigrateFrom(source, target, source_entity_row, i + 1, j)
    ELSE IF source.types[i + 1] > target.types[j + 1]
    THEN MigrateFrom(source, target, source_entity_row, i, j + 1)
    ELSE IF i >= Len(source.component_types) \/ j >= Len(target.component_types)
    THEN [source |-> source, target |-> target, panic |-> PanicIndexOutOfBounds]
    ELSE LET col_source == source.component_types[i + 1]
             col_target == target.component_types[j + 1]
         IN  IF ColLen(col_source) > source_entity_row
             THEN LET m == migrate_element(col_source, source_entity_row, col_target)
                  IN  IF m.panic # NoPanic
                      THEN [source |-> source, target |-> target, panic |-> m.panic]
                      ELSE MigrateFrom(
                              [source EXCEPT !.component_types[i + 1] = m.src],
                              [target EXCEPT !.component_types[j + 1] = m.tgt],
                              source_entity_row, i + 1, j + 1)
             ELSE MigrateFrom(source, target, source_entity_row, i + 1, j + 1)

\* align_and_migrate_archetypes(source, target, source_entity_row)
align_and_migrate_archetypes(source, target, source_entity_row) ==
    MigrateFrom(source, target, source_entity_row, 0, 0)

----------------------------------------------------------------------------
\* Storage (storage.rs).  A storage value is the four fields of Storage and
\* the panic, if any, that the helpers run so far have raised.

Self ==
    [archetypes |-> archetypes,
     component_index |-> component_index,
     entity_index |-> entity_index,
     archetype_id_counter |-> archetype_id_counter,
     panic |-> NoPanic]

\* Storage::new
new ==
    [archetypes |-> EmptyMap,
     component_index |-> EmptyMap,
     entity_index |-> EmptyMap,
     archetype_id_counter |-> 0,
     panic |-> NoPanic]

Fail(st, message) == [st EXCEPT !.panic = message]

\* EntityRecord
EntityRecord(archetype_id, entity_row) ==
    [archetype_id |-> archetype_id, entity_row |-> entity_row]

\* Storage::has_component::<t>
has_component(st, t) == t \in DOMAIN st.component_index

\* Storage::get_archetype_for_entity: None for an entity without record; the
\* HashMap index panics for a record whose archetype is not in the table.
get_archetype_for_entity(st, entity) ==
    IF entity \notin DOMAIN st.entity_index
    THEN [panic |-> NoPanic, some |-> FALSE]
    ELSE IF st.entity_index[entity].archetype_id \notin DOMAIN st.archetypes
    THEN [panic |-> PanicMissingKey, some |-> FALSE]
    ELSE [panic |-> NoPanic, some |-> TRUE,
          archetype |-> st.archetypes[st.entity_index[entity].archetype_id]]

\* Storage::has_entity_component::<t>(entity): the entity's archetype has a
\* column of type t and `vec.get(entity)` is Some, that is entity < len.
has_entity_component(st, t, entity) ==
    LET a == get_archetype_for_entity(st, entity)
    IN  IF a.panic # NoPanic THEN [panic |-> a.panic, value |-> FALSE]
        ELSE [panic |-> NoPanic,
              value |->
                /\ a.some
                /\ \E i \in 1 .. Len(a.archetype.component_types) :
                      /\ a.archetype.component_types[i].ty = t
                      /\ entity < ColLen(a.archetype.component_types[i])]

\* Storage::get_archetype_ids_for_component::<t>: the Vec, <<>> standing for None.
get_archetype_ids_for_component(st, t) ==
    IF t \in DOMAIN st.component_index THEN st.component_index[t] ELSE <<>>

\* Storage::get_archetypes_for_component::<t>
get_archetypes_for_component(st, t) ==
    LET archetype_ids == get_archetype_ids_for_component(st, t)
    IN  IF \E i \in 1 .. Len(archetype_ids) : archetype_ids[i] \notin DOMAIN st.archetypes
        THEN [panic |-> PanicMissingKey, list |-> <<>>]
        ELSE [panic |-> NoPanic,
              list |-> [i \in 1 .. Len(archetype_ids) |-> st.archetypes[archetype_ids[i]]]]

\* The closure without the comparison of the lengths: an archetype with a
\* subset of the wanted types matches.
TypeIdsMatch_without_length(archetype, type_ids) ==
    \A i \in 1 .. Len(archetype.types) : archetype.types[i] \in Range(type_ids)

\* The closure of find_archetype_id_by_type_ids.
TypeIdsMatch(archetype, type_ids) ==
    /\ Len(archetype.types) = Len(type_ids)
    /\ \A i \in 1 .. Len(archetype.types) : archetype.types[i] \in Range(type_ids)

\* Storage::find_archetype_id_by_type_ids::<t>(type_ids): the id of the first
\* archetype, among those the index lists for t, that matches; None if none.
find_archetype_id_by_type_ids(st, t, type_ids) ==
    LET matching_archetypes == get_archetypes_for_component(st, t)
        list == matching_archetypes.list
    IN  IF matching_archetypes.panic # NoPanic
        THEN [panic |-> matching_archetypes.panic, id |-> None]
        ELSE IF \E i \in 1 .. Len(list) : TypeIdsMatch(list[i], type_ids)
        THEN [panic |-> NoPanic,
              id |-> list[CHOOSE i \in 1 .. Len(list) :
                            /\ TypeIdsMatch(list[i], type_ids)
                            /\ \A k \in 1 .. (i - 1) : ~TypeIdsMatch(list[k], type_ids)].id]
        ELSE [panic |-> NoPanic, id |-> None]

\* The for_each of register_archetype over the first n types.
RECURSIVE IndexPushed(_, _, _, _)
IndexPushed(index, types, n, archetype_id) ==
    IF n = 0 THEN index
    ELSE LET before == IndexPushed(index, types, n - 1, archetype_id)
             type_id == types[n]
         IN  Put(before, type_id,
                 Append(IF type_id \in DOMAIN before THEN before[type_id] ELSE <<>>,
                        archetype_id))

\* A register_archetype that pushes the id under the first type of the
\* archetype only.
register_archetype_under_first_type(st, archetype) ==
    [st EXCEPT
        !.component_index =
            IndexPushed(st.component_index, archetype.types,
                        IF Len(archetype.types) > 0 THEN 1 ELSE 0, archetype.id),
        !.archetypes = Put(st.archetypes, archetype.id, archetype),
        !.archetype_id_counter = st.archetype_id_counter + 1]

\* Storage::register_archetype
register_archetype(st, archetype) ==
    [st EXCEPT
        !.component_index =
            IndexPushed(st.component_index, archetype.types, Len(archetype.types),
                        archetype.id),
        !.archetypes = Put(st.archetypes, archetype.id, archetype),
        !.archetype_id_counter = st.archetype_id_counter + 1]

\* Storage::add_archetype_for_new_component_type::<t>(component)
add_archetype_for_new_component_type(st, t, component) ==
    register_archetype(st,
        [id |-> st.archetype_id_counter,
         component_types |-> <<[ty |-> t, data |-> <<component>>]>>,
         types |-> <<t>>])

\* The for_each of remove_archetype over the first n types: the index, or the
\* panic of the unwrap of a type the index does not have.
RECURSIVE IndexPurged(_, _, _, _)
IndexPurged(index, types, n, archetype_id) ==
    IF n = 0 THEN [panic |-> NoPanic, index |-> index]
    ELSE LET before == IndexPurged(index, types, n - 1, archetype_id)
             type_id == types[n]
         IN  IF before.panic # NoPanic THEN before
             ELSE IF type_id \notin DOMAIN before.index
             THEN [panic |-> PanicUnwrapNone, index |-> before.index]
             ELSE IF Len(before.index[type_id]) = 1
             THEN [panic |-> NoPanic, index |-> Del(before.index, type_id)]
             ELSE [panic |-> NoPanic,
                   index |-> [before.index EXCEPT
                                ![type_id] = Retain(@, archetype_id)]]

\* A remove_archetype that takes the branch of the last archetype whatever
\* the size of the table: it clears the table and both indexes.
remove_archetype_clearing_all(st, archetype_id) ==
    [st EXCEPT !.archetypes = EmptyMap,
               !.component_index = EmptyMap,
               !.entity_index = EmptyMap]

\* A remove_archetype that, with the last archetype, clears the id counter
\* as well.
remove_archetype_resetting_counter(st, archetype_id) ==
    IF Cardinality(DOMAIN st.archetypes) = 1
    THEN [st EXCEPT !.archetypes = EmptyMap,
                    !.component_index = EmptyMap,
                    !.entity_index = EmptyMap,
                    !.archetype_id_counter = 0]
    ELSE IF archetype_id \notin DOMAIN st.archetypes
    THEN Fail(st, PanicUnwrapNone)
    ELSE LET archetype == st.archetypes[archetype_id]
             purged == IndexPurged(st.component_index, archetype.types,
                                   Len(archetype.types), archetype_id)
         IN  IF purged.panic # NoPanic THEN Fail(st, purged.panic)
             ELSE [st EXCEPT !.archetypes = Del(st.archetypes, archetype_id),
                             !.component_index = purged.index]

\* Storage::remove_archetype
remove_archetype(st, archetype_id) ==
    IF Cardinality(DOMAIN st.archetypes) = 1
    THEN [st EXCEPT !.archetypes = EmptyMap,
                    !.component_index = EmptyMap,
                    !.entity_index = EmptyMap]
    ELSE IF archetype_id \notin DOMAIN st.archetypes
    THEN Fail(st, PanicUnwrapNone)
    ELSE LET archetype == st.archetypes[archetype_id]
             purged == IndexPurged(st.component_index, archetype.types,
                                   Len(archetype.types), archetype_id)
         IN  IF purged.panic # NoPanic THEN Fail(st, purged.panic)
             ELSE [st EXCEPT !.archetypes = Del(st.archetypes, archetype_id),
                             !.component_index = purged.index]

\* A move_entity_to_new_archetype that puts the target archetype back into
\* the table and not the archetype the entity left.
move_entity_dropping_source(st, entity, new_archetype_id) ==
    IF entity \notin DOMAIN st.entity_index THEN st
    ELSE LET current_record == st.entity_index[entity]
             without == Del(st.archetypes, current_record.archetype_id)
         IN  IF current_record.archetype_id \notin DOMAIN st.archetypes
             THEN Fail(st, PanicInvalidArchetypeId)
             ELSE IF new_archetype_id \notin DOMAIN without
             THEN Fail(st, PanicInvalidArchetypeId)
             ELSE LET m == align_and_migrate_archetypes(
                              st.archetypes[current_record.archetype_id],
                              without[new_archetype_id],
                              current_record.entity_row)
                  IN  IF m.panic # NoPanic THEN Fail(st, m.panic)
                      ELSE [st EXCEPT
                              !.entity_index = Del(st.entity_index, entity),
                              !.archetypes =
                                  Put(Del(without, new_archetype_id),
                                      m.target.id, m.target)]

\* Storage::move_entity_to_new_archetype
move_entity_to_new_archetype(st, entity, new_archetype_id) ==
    IF entity \notin DOMAIN st.entity_index THEN st
    ELSE LET current_record == st.entity_index[entity]
             without == Del(st.archetypes, current_record.archetype_id)
         IN  IF current_record.archetype_id \notin DOMAIN st.archetypes
             THEN Fail(st, PanicInvalidArchetypeId)
             ELSE IF new_archetype_id \notin DOMAIN without
             THEN Fail(st, PanicInvalidArchetypeId)
             ELSE LET m == align_and_migrate_archetypes(
                              st.archetypes[current_record.archetype_id],
                              without[new_archetype_id],
                              current_record.entity_row)
                  IN  IF m.panic # NoPanic THEN Fail(st, m.panic)
                      ELSE [st EXCEPT
                              !.entity_index = Del(st.entity_index, entity),
                              !.archetypes =
                                  Put(Put(Del(without, new_archetype_id),
                                          m.source.id, m.source),
                                      m.target.id, m.target)]

\* The tail of add_component_to_entity and of remove_component_from_entity:
\* the record (new archetype, component_types[0].len() - 1) is inserted.
RecordLastRow(st, entity, new_archetype_id) ==
    LET new_archetype == st.archetypes[new_archetype_id]
    IN  IF Len(new_archetype.component_types) = 0
        THEN Fail(st, PanicIndexOutOfBounds)
        ELSE IF ColLen(new_archetype.component_types[1]) = 0
        THEN Fail(st, PanicSubtractOverflow)
        ELSE [st EXCEPT !.entity_index =
                Put(st.entity_index, entity,
                    EntityRecord(new_archetype.id,
                                 ColLen(new_archetype.component_types[1]) - 1))]

\* add_component_to_entity from `self.move_entity_to_new_archetype` on.
AddMoveAndPush(st, entity, t, component, new_archetype_id) ==
    LET moved == move_entity_to_new_archetype(st, entity, new_archetype_id)
    IN  IF moved.panic # NoPanic THEN moved
        ELSE IF new_archetype_id \notin DOMAIN moved.archetypes
        THEN Fail(moved, PanicInvalidArchetypeId)
        ELSE LET pushed == push_component(moved.archetypes[new_archetype_id], t, component)
             IN  IF pushed.panic # NoPanic THEN Fail(moved, pushed.panic)
                 ELSE RecordLastRow(
                        [moved EXCEPT !.archetypes[new_archetype_id] = pushed.archetype],
                        entity, new_archetype_id)

\* Storage::add_component_to_entity::<t>(entity, component)
add_component_to_entity(st, entity, t, component) ==
    IF ~has_component(st, t) /\ entity \notin DOMAIN st.entity_index
    THEN [add_archetype_for_new_component_type(st, t, component) EXCEPT
            !.entity_index = Put(st.entity_index, entity,
                                 EntityRecord(st.archetype_id_counter, 0))]
    ELSE LET has == has_entity_component(st, t, entity)
             current_archetype == get_archetype_for_entity(st, entity)
             wanted_component_types ==
                Append(IF current_archetype.some THEN current_archetype.archetype.types
                       ELSE <<>>, t)
             found == find_archetype_id_by_type_ids(st, t, wanted_component_types)
         IN  IF entity \in DOMAIN st.entity_index /\ has.panic # NoPanic
             THEN Fail(st, has.panic)
             ELSE IF entity \in DOMAIN st.entity_index /\ has.value
             THEN st
             ELSE IF current_archetype.panic # NoPanic
             THEN Fail(st, current_archetype.panic)
             ELSE IF found.panic # NoPanic
             THEN Fail(st, found.panic)
             ELSE IF found.id # None
             THEN AddMoveAndPush(st, entity, t, component, found.id)
             ELSE IF ~current_archetype.some
             THEN Fail(st, PanicExpectedArchetype)
             ELSE LET id == st.archetype_id_counter
                      new_archetype == new_from_add(current_archetype.archetype, t, id)
                  IN  IF new_archetype.panic # NoPanic THEN Fail(st, new_archetype.panic)
                      ELSE AddMoveAndPush(
                              register_archetype(st, new_archetype.archetype),
                              entity, t, component, id)

\* remove_component_from_entity from `self.move_entity_to_new_archetype` on.
RemoveMove(st, entity, new_archetype_id) ==
    LET moved == move_entity_to_new_archetype(st, entity, new_archetype_id)
    IN  IF moved.panic # NoPanic THEN moved
        ELSE IF new_archetype_id \notin DOMAIN moved.archetypes
        THEN Fail(moved, PanicInvalidArchetypeId)
        ELSE RecordLastRow(moved, entity, new_archetype_id)

\* wanted_component_types of remove_component_from_entity: the types but t.
RECURSIVE FilterOut(_, _)
FilterOut(types, t) ==
    IF types = <<>> THEN <<>>
    ELSE IF Head(types) # t THEN <<Head(types)>> \o FilterOut(Tail(types), t)
    ELSE FilterOut(Tail(types), t)

\* Storage::remove_component_from_entity::<t>(entity, _)
remove_component_from_entity(st, entity, t) ==
    IF entity \notin DOMAIN st.entity_index THEN st
    ELSE LET has == has_entity_component(st, t, entity)
             current_archetype == get_archetype_for_entity(st, entity)
             wanted_component_types ==
                FilterOut(IF current_archetype.some THEN current_archetype.archetype.types
                          ELSE <<>>, t)
             found == find_archetype_id_by_type_ids(st, t, wanted_component_types)
         IN  IF has.panic # NoPanic THEN Fail(st, has.panic)
             ELSE IF ~has.value THEN st
             ELSE IF found.panic # NoPanic THEN Fail(st, found.panic)
             ELSE IF found.id # None
             THEN RemoveMove(st, entity, found.id)
             ELSE LET id == st.archetype_id_counter
                      new_archetype == new_from_remove(current_archetype.archetype, t, id)
                  IN  IF new_archetype.panic # NoPanic THEN Fail(st, new_archetype.panic)
                      ELSE RemoveMove(register_archetype(st, new_archetype.archetype),
                                      entity, id)

\* The entities the `find` of remove_entity can return: the iteration order of
\* the HashMap decides which record of the archetype comes first.
MovedEntityCandidates(st, entity) ==
    IF entity \notin DOMAIN st.entity_index THEN {}
    ELSE {e \in (DOMAIN st.entity_index) \ {entity} :
            st.entity_index[e].archetype_id = st.entity_index[entity].archetype_id}

\* A remove_entity that takes a default record, archetype 0, for an entity
\* the entity index does not have, and removes that archetype.
remove_entity_with_default_record(st, entity, moved_entity) ==
    IF entity \notin DOMAIN st.entity_index
    THEN IF 0 \in DOMAIN st.archetypes THEN remove_archetype(st, 0) ELSE st
    ELSE LET record == st.entity_index[entity]
             removed == [st EXCEPT !.entity_index = Del(st.entity_index, entity)]
         IN  IF record.archetype_id \notin DOMAIN st.archetypes
             THEN Fail(st, PanicInvalidEntityArchetype)
             ELSE LET archetype == st.archetypes[record.archetype_id]
                      columns == archetype.component_types
                  IN  IF Len(columns) = 0 THEN Fail(st, PanicIndexOutOfBounds)
                      ELSE LET archetype_size == ColLen(columns[1])
                           IN  IF archetype_size = 1
                               THEN remove_archetype(removed, record.archetype_id)
                               ELSE IF \E i \in 1 .. Len(columns) :
                                          record.entity_row >= ColLen(columns[i])
                               THEN Fail(st, PanicIndexOutOfBounds)
                               ELSE LET swapped ==
                                          [removed EXCEPT
                                             !.archetypes[record.archetype_id].component_types =
                                                [i \in 1 .. Len(columns) |->
                                                    swap_remove(columns[i], record.entity_row)]]
                                    IN  IF ~(record.entity_row < archetype_size - 1)
                                        THEN swapped
                                        ELSE IF moved_entity \notin DOMAIN swapped.entity_index
                                        THEN Fail(st, PanicEntityNotFound)
                                        ELSE [swapped EXCEPT
                                                !.entity_index[moved_entity].entity_row =
                                                    record.entity_row]

\* Storage::remove_entity(entity); moved_entity is the entity the `find` returns.
remove_entity(st, entity, moved_entity) ==
    IF entity \notin DOMAIN st.entity_index THEN st
    ELSE LET record == st.entity_index[entity]
             removed == [st EXCEPT !.entity_index = Del(st.entity_index, entity)]
         IN  IF record.archetype_id \notin DOMAIN st.archetypes
             THEN Fail(st, PanicInvalidEntityArchetype)
             ELSE LET archetype == st.archetypes[record.archetype_id]
                      columns == archetype.component_types
                  IN  IF Len(columns) = 0 THEN Fail(st, PanicIndexOutOfBounds)
                      ELSE LET archetype_size == ColLen(columns[1])
                           IN  IF archetype_size = 1
                               THEN remove_archetype(removed, record.archetype_id)
                               ELSE IF \E i \in 1 .. Len(columns) :
                                          record.entity_row >= ColLen(columns[i])
                               THEN Fail(st, PanicIndexOutOfBounds)
                               ELSE LET swapped ==
                                          [removed EXCEPT
                                             !.archetypes[record.archetype_id].component_types =
                                                [i \in 1 .. Len(columns) |->
                                                    swap_remove(columns[i], record.entity_row)]]
                                    IN  IF ~(record.entity_row < archetype_size - 1)
                                        THEN swapped
                                        ELSE IF moved_entity \notin DOMAIN swapped.entity_index
                                        THEN Fail(st, PanicEntityNotFound)
                                        ELSE [swapped EXCEPT
                                                !.entity_index[moved_entity].entity_row =
                                                    record.entity_row]

----------------------------------------------------------------------------
\* Query (query.rs).  A query yields a sequence of items, one per row visited:
\* [archetype_id, row, values], values in the order of the requested types
\* (query_one yields the bare value: a tuple of one).

\* The set of archetype ids the index lists for a type (query.rs 249-255).
ArchetypeSet(st, type_id) ==
    IF type_id \in DOMAIN st.component_index THEN Range(st.component_index[type_id])
    ELSE {}

\* position_min_by_key(|set| set.len()): the first smallest set (from 1).
SmallestSetPos(archetype_sets) ==
    CHOOSE p \in 1 .. Len(archetype_sets) :
        /\ \A k \in 1 .. Len(archetype_sets) :
              Cardinality(archetype_sets[p]) <= Cardinality(archetype_sets[k])
        /\ \A k \in 1 .. (p - 1) :
              Cardinality(archetype_sets[k]) > Cardinality(archetype_sets[p])

\* A get_archetype_ids_for_types without the loop: the smallest set is
\* returned as it is.
Intersected_skipped(smallest_set, archetype_sets, n) == smallest_set

\* The loop `for set in archetype_sets` over the first n sets.
RECURSIVE Intersected(_, _, _)
Intersected(smallest_set, archetype_sets, n) ==
    IF n = 0 THEN smallest_set
    ELSE Intersected(smallest_set, archetype_sets, n - 1) \cap archetype_sets[n]

\* get_archetype_ids_for_types: the ids of the Vec returned, which lists them
\* in the iteration order of a HashSet.
get_archetype_ids_for_types(st, type_ids) ==
    LET archetype_sets == [i \in 1 .. Len(type_ids) |-> ArchetypeSet(st, type_ids[i])]
        smallest_set_pos == SmallestSetPos(archetype_sets)
        rest == SwapRemoveSeq(archetype_sets, smallest_set_pos - 1)
    IN  Intersected(archetype_sets[smallest_set_pos], rest, Len(rest))

\* iter_archetype_components_by_type_ids (and its _mut twin): the columns of a
\* requested type, stable-sorted by the position of their type in type_ids.
RECURSIVE InsertByPosition(_, _, _)
InsertByPosition(sorted, column, type_ids) ==
    IF sorted = <<>> THEN <<column>>
    ELSE IF Position(type_ids, column.ty) < Position(type_ids, Head(sorted).ty)
    THEN <<column>> \o sorted
    ELSE <<Head(sorted)>> \o InsertByPosition(Tail(sorted), column, type_ids)

RECURSIVE ColumnsByTypeIds(_, _, _)
ColumnsByTypeIds(columns, n, type_ids) ==
    IF n = 0 THEN <<>>
    ELSE IF columns[n].ty \in Range(type_ids)
    THEN InsertByPosition(ColumnsByTypeIds(columns, n - 1, type_ids), columns[n], type_ids)
    ELSE ColumnsByTypeIds(columns, n - 1, type_ids)

\* An iter_archetype_components_by_type_ids with the filter and without the
\* sort: the requested columns in the column order of the archetype.
iter_archetype_components_in_column_order(archetype, type_ids) ==
    LET Requested(column) == column.ty \in Range(type_ids)
    IN  SelectSeq(archetype.component_types, Requested)

iter_archetype_components_by_type_ids(archetype, type_ids) ==
    ColumnsByTypeIds(archetype.component_types, Len(archetype.component_types), type_ids)

Min(S) == CHOOSE x \in S : \A y \in S : x <= y

\* The closure of iterate_components_base for one archetype: the izip of the
\* first N columns, each downcast to the type requested at its place.
ArchetypeItems(archetype, type_ids) ==
    LET components == iter_archetype_components_by_type_ids(archetype, type_ids)
        n == Len(type_ids)
    IN  IF Len(components) < n
        THEN [panic |-> PanicUnwrapNone, items |-> <<>>]
        ELSE IF \E k \in 1 .. n : components[k].ty # type_ids[k]
        THEN [panic |-> PanicUnwrapNone, items |-> <<>>]
        ELSE [panic |-> NoPanic,
              items |->
                [r \in 1 .. Min({ColLen(components[k]) : k \in 1 .. n}) |->
                    [archetype_id |-> archetype.id,
                     row |-> r - 1,
                     values |-> [k \in 1 .. n |-> components[k].data[r].value]]]]

\* An iter_archetype_components_unchecked that iterates the column from its
\* last row to its first.
iter_archetype_components_reversed(archetype, t) ==
    LET p == ColumnPosition(archetype.component_types, t)
        n == IF p = 0 THEN 0 ELSE ColLen(archetype.component_types[p])
    IN  IF p = 0 THEN [panic |-> PanicComponentTypeNotFound, items |-> <<>>]
        ELSE [panic |-> NoPanic,
              items |->
                [r \in 1 .. n |->
                    [archetype_id |-> archetype.id,
                     row |-> n - r,
                     values |-> <<archetype.component_types[p].data[n - r + 1].value>>]]]

\* An iter_archetype_components_unchecked that hands out the first element of
\* the column once for every row of the column.
iter_archetype_components_first_row_repeated(archetype, t) ==
    LET p == ColumnPosition(archetype.component_types, t)
    IN  IF p = 0 THEN [panic |-> PanicComponentTypeNotFound, items |-> <<>>]
        ELSE [panic |-> NoPanic,
              items |->
                [r \in 1 .. ColLen(archetype.component_types[p]) |->
                    [archetype_id |-> archetype.id,
                     row |-> 0,
                     values |-> <<archetype.component_types[p].data[1].value>>]]]

\* iter_archetype_components_unchecked (and its _mut twin)
iter_archetype_components_unchecked(archetype, t) ==
    LET p == ColumnPosition(archetype.component_types, t)
    IN  IF p = 0 THEN [panic |-> PanicComponentTypeNotFound, items |-> <<>>]
        ELSE [panic |-> NoPanic,
              items |->
                [r \in 1 .. ColLen(archetype.component_types[p]) |->
                    [archetype_id |-> archetype.id,
                     row |-> r - 1,
                     values |-> <<archetype.component_types[p].data[r].value>>]]]

\* flat_map over the archetypes visited, in the order given.
RECURSIVE FlatMapItems(_, _, _, _)
FlatMapItems(st, order, n, type_ids) ==
    IF n = 0 THEN [panic |-> NoPanic, items |-> <<>>]
    ELSE LET before == FlatMapItems(st, order, n - 1, type_ids)
             here == IF Len(type_ids) = 1
                     THEN iter_archetype_components_unchecked(
                              st.archetypes[order[n]], type_ids[1])
                     ELSE ArchetypeItems(st.archetypes[order[n]], type_ids)
         IN  IF before.panic # NoPanic THEN before
             ELSE IF here.panic # NoPanic THEN [panic |-> here.panic, items |-> <<>>]
             ELSE [panic |-> NoPanic, items |-> before.items \o here.items]

\* A get_archetypes_for_component_mut without the filter: every archetype of
\* the table is handed out.
get_archetypes_for_component_mut_unfiltered(st, t) == DOMAIN st.archetypes

\* get_archetypes_for_component_mut::<t>: the archetypes kept by the filter.
get_archetypes_for_component_mut(st, t) ==
    {id \in DOMAIN st.archetypes :
        st.archetypes[id].id \in Range(get_archetype_ids_for_component(st, t))}

\* A get_archetypes_by_ids_mut without the filter: every archetype of the
\* table is handed out.
get_archetypes_by_ids_mut_unfiltered(st, ids) == DOMAIN st.archetypes

\* get_archetypes_by_ids_mut: the archetypes kept by the filter.
get_archetypes_by_ids_mut(st, ids) ==
    {id \in DOMAIN st.archetypes : id \in ids}

\* The orders in which a query can visit archetypes.  query_one follows the Vec
\* of the index; query_two/three/four follow the Vec of
\* get_archetype_ids_for_types, filled in the iteration order of a HashSet;
\* every mutable query follows the iteration order of Storage.archetypes.
VisitOrders(st, type_ids, mutable) ==
    IF Len(type_ids) > 1 /\ ~(Cardinality(Range(type_ids)) = Len(type_ids))
    THEN {<<>>}
    ELSE IF Len(type_ids) = 1
    THEN IF mutable
         THEN Orders(get_archetypes_for_component_mut(st, type_ids[1]))
         ELSE {get_archetype_ids_for_component(st, type_ids[1])}
    ELSE IF mutable
         THEN Orders(get_archetypes_by_ids_mut(st,
                        get_archetype_ids_for_types(st, type_ids)))
         ELSE Orders(get_archetype_ids_for_types(st, type_ids))

\* An iterate_components_base without the assert_eq!: any list passes.
DistinctTypes_unchecked(type_ids) == TRUE

\* The assert_eq! of iterate_components_base: the requested types are distinct.
DistinctTypes(type_ids) ==
    Cardinality(Range(type_ids)) = Len(type_ids)

\* query_one / query_two / ... (mutable = FALSE) and their _mut variants
\* (mutable = TRUE), iterated to the end, visiting archetypes in `order`.
query(st, type_ids, mutable, order) ==
    IF Len(type_ids) > 1 /\ ~DistinctTypes(type_ids)
    THEN [panic |-> MESSAGE_DUPLICATE_COMPONENT_TYPE, items |-> <<>>]
    ELSE IF \E i \in 1 .. Len(order) : order[i] \notin DOMAIN st.archetypes
    THEN [panic |-> IF Len(type_ids) = 1 THEN PanicMissingKey ELSE PanicArchetypeNotFound,
          items |-> <<>>]
    ELSE FlatMapItems(st, order, Len(order), type_ids)

\* What a caller of a mutable query does that assigns `value` through every
\* reference it is handed: the archetype table afterwards.
WrittenThrough(table, items, type_ids, value) ==
    [id \in DOMAIN table |->
        [table[id] EXCEPT !.component_types =
            [i \in 1 .. Len(table[id].component_types) |->
                LET column == table[id].component_types[i]
                IN  [column EXCEPT !.data =
                        [r \in 1 .. Len(column.data) |->
                            IF /\ column.ty \in Range(type_ids)
                               /\ \E k \in 1 .. Len(items) :
                                     /\ items[k].archetype_id = table[id].id
                                     /\ items[k].row = r - 1
                            THEN [column.data[r] EXCEPT !.value = value]
                            ELSE column.data[r]]]]]]

----------------------------------------------------------------------------
\* The state machine.

\* All lists of 1 .. MaxQueryTypes requested types, duplicates included.
TypeLists == UNION {[1 .. n -> TypeIds] : n \in 1 .. MaxQueryTypes}

NothingAttached == [e \in Entities |-> [t \in AllTypeIds |-> None]]

Init ==
    /\ archetypes = new.archetypes
    /\ component_index = new.component_index
    /\ entity_index = new.entity_index
    /\ archetype_id_counter = new.archetype_id_counter
    /\ failure = NoPanic
    /\ ret = <<>>
    /\ attached = NothingAttached
    /\ alive = {}
    /\ calls = 0

\* A call can be made: the program has not panicked and has calls left.
Running ==
    /\ failure = NoPanic
    /\ calls < MaxCalls

\* A call that panicked.
Panics(message) ==
    /\ failure' = message
    /\ archetypes' = new.archetypes
    /\ component_index' = new.component_index
    /\ entity_index' = new.entity_index
    /\ archetype_id_counter' = new.archetype_id_counter
    /\ ret' = <<>>
    /\ attached' = NothingAttached
    /\ alive' = {}
    /\ calls' = calls + 1

\* A call that returned and left the storage value `after`.
Returns(after) ==
    /\ failure' = NoPanic
    /\ archetypes' = after.archetypes
    /\ component_index' = after.component_index
    /\ entity_index' = after.entity_index
    /\ archetype_id_counter' = after.archetype_id_counter
    /\ calls' = calls + 1

\* storage.add_component_to_entity(entity, value) with a value of type t.
AddComponentToEntity(entity, t, value) ==
    LET after == add_component_to_entity(Self, entity, t,
                                         [value |-> value, owner |-> entity])
    IN  /\ Running
        /\ IF after.panic # NoPanic THEN Panics(after.panic)
           ELSE /\ Returns(after)
                /\ ret' = <<>>
                /\ attached' = IF attached[entity][t] = None
                               THEN [attached EXCEPT ![entity][t] = value]
                               ELSE attached
                /\ alive' = alive \cup {entity}

\* storage.remove_component_from_entity::<t>(entity, _)
RemoveComponentFromEntity(entity, t) ==
    LET after == remove_component_from_entity(Self, entity, t)
    IN  /\ Running
        /\ IF after.panic # NoPanic THEN Panics(after.panic)
           ELSE /\ Returns(after)
                /\ ret' = <<>>
                /\ attached' = [attached EXCEPT ![entity][t] = None]
                /\ alive' = alive

\* storage.remove_entity(entity)
RemoveEntity(entity) ==
    /\ Running
    /\ \E moved_entity \in
            IF MovedEntityCandidates(Self, entity) = {} THEN {None}
            ELSE MovedEntityCandidates(Self, entity) :
          LET after == remove_entity(Self, entity, moved_entity)
          IN  IF after.panic # NoPanic THEN Panics(after.panic)
              ELSE /\ Returns(after)
                   /\ ret' = <<>>
                   /\ attached' = [attached EXCEPT ![entity] = [t \in AllTypeIds |-> None]]
                   /\ alive' = alive \ {entity}

\* storage.query_one / query_two / ..., iterated to the end.
Query(type_ids) ==
    /\ Running
    /\ \E order \in VisitOrders(Self, type_ids, FALSE) :
          LET q == query(Self, type_ids, FALSE, order)
          IN  IF q.panic # NoPanic THEN Panics(q.panic)
              ELSE /\ Returns(Self)
                   /\ ret' = q.items
                   /\ UNCHANGED <<attached, alive>>

\* The history after a caller assigned `value` through every reference of
\* `items`: the value is the last one attached for the owner of each cell.
AttachedThrough(items, type_ids, value) ==
    [e \in Entities |-> [t \in AllTypeIds |->
        IF /\ attached[e][t] # None
           /\ t \in Range(type_ids)
           /\ \E k \in 1 .. Len(items) :
                 LET a == archetypes[items[k].archetype_id]
                     p == ColumnPosition(a.component_types, t)
                 IN  a.component_types[p].data[items[k].row + 1].owner = e
        THEN value
        ELSE attached[e][t]]]

\* storage.query_one_mut / query_two_mut / ..., iterated to the end by a caller
\* that assigns `value` through every reference.
QueryMut(type_ids, value) ==
    /\ Running
    /\ \E order \in VisitOrders(Self, type_ids, TRUE) :
          LET q == query(Self, type_ids, TRUE, order)
          IN  IF q.panic # NoPanic THEN Panics(q.panic)
              ELSE /\ Returns([Self EXCEPT !.archetypes =
                                WrittenThrough(archetypes, q.items, type_ids, value)])
                   /\ ret' = q.items
                   /\ attached' = AttachedThrough(q.items, type_ids, value)
                   /\ alive' = alive

Next ==
    \/ \E entity \in Entities, t \in TypeIds, value \in Values :
          AddComponentToEntity(entity, t, value)
    \/ \E entity \in Entities, t \in TypeIds : RemoveComponentFromEntity(entity, t)
    \/ \E entity \in Entities : RemoveEntity(entity)
    \/ \E type_ids \in TypeLists : Query(type_ids)
    \/ \E type_ids \in TypeLists, value \in Values : QueryMut(type_ids, value)

Spec == Init /\ [][Next]_vars

----------------------------------------------------------------------------
\* The program continued after its first remove_entity.  Five calls were
\* made: two entities got the same two types, first one type for both, then
\* the other for both, and the first entity was removed:
\*   add(e1, t1); add(e2, t1); add(e1, t2); add(e2, t2); remove_entity(e1).
\* Up to MaxCallsAfterRemoval calls follow, and they can name every type of
\* AllTypeIds; `calls` counts the calls that follow.

MaxCallsAfterRemoval == 2

\* All lists of 1 .. MaxQueryTypes requested types of AllTypeIds.
AllTypeLists == UNION {[1 .. n -> AllTypeIds] : n \in 1 .. MaxQueryTypes}

\* The storage after the first n of the calls add(adds[1]), add(adds[2]), ...;
\* no call follows one that panicked.
RECURSIVE AfterAdds(_, _)
AfterAdds(n, adds) ==
    IF n = 0 THEN new
    ELSE IF AfterAdds(n - 1, adds).panic # NoPanic THEN AfterAdds(n - 1, adds)
    ELSE add_component_to_entity(AfterAdds(n - 1, adds), adds[n].entity, adds[n].t,
                                 [value |-> adds[n].value, owner |-> adds[n].entity])

\* The four add calls.
FirstAdds(e1, e2, t1, t2, value) ==
    <<[entity |-> e1, t |-> t1, value |-> value],
      [entity |-> e2, t |-> t1, value |-> value],
      [entity |-> e1, t |-> t2, value |-> value],
      [entity |-> e2, t |-> t2, value |-> value]>>

\* The history after the five calls.
AttachedAfterRemoval(e2, t1, t2, value) ==
    [e \in Entities |-> [t \in AllTypeIds |->
        IF e = e2 /\ t \in {t1, t2} THEN value ELSE None]]

\* The storage is `st`, no call of the continuation was made yet.
StartsFrom(st) ==
    /\ st.panic = NoPanic
    /\ archetypes = st.archetypes
    /\ component_index = st.component_index
    /\ entity_index = st.entity_index
    /\ archetype_id_counter = st.archetype_id_counter
    /\ failure = NoPanic
    /\ ret = <<>>
    /\ calls = 0

InitAfterRemoval ==
    \E e1, e2 \in Entities, t1, t2 \in TypeIds, value \in Values :
        /\ e1 # e2
        /\ t1 # t2
        /\ \E moved_entity \in
                IF MovedEntityCandidates(AfterAdds(4, FirstAdds(e1, e2, t1, t2, value)), e1) = {}
                THEN {None}
                ELSE MovedEntityCandidates(AfterAdds(4, FirstAdds(e1, e2, t1, t2, value)), e1) :
              /\ AfterAdds(4, FirstAdds(e1, e2, t1, t2, value)).panic = NoPanic
              /\ StartsFrom(remove_entity(AfterAdds(4, FirstAdds(e1, e2, t1, t2, value)),
                                          e1, moved_entity))
        /\ attached = AttachedAfterRemoval(e2, t1, t2, value)
        /\ alive = {e2}

\* A call of the continuation can be made.
CallsLeft == calls < MaxCallsAfterRemoval

NextAfterRemoval ==
    \/ \E entity \in Entities, t \in AllTypeIds, value \in Values :
          CallsLeft /\ AddComponentToEntity(entity, t, value)
    \/ \E entity \in Entities, t \in AllTypeIds :
          CallsLeft /\ RemoveComponentFromEntity(entity, t)
    \/ \E entity \in Entities : CallsLeft /\ RemoveEntity(entity)
    \/ \E type_ids \in AllTypeLists : CallsLeft /\ Query(type_ids)
    \/ \E type_ids \in AllTypeLists, value \in Values :
          CallsLeft /\ QueryMut(type_ids, value)

SpecAfterRemoval == InitAfterRemoval /\ [][NextAfterRemoval]_vars

----------------------------------------------------------------------------
\* Vocabulary of the properties.

\* The entity has a record and the archetype of the record is in the table.
Recorded(entity) ==
    /\ entity \in DOMAIN entity_index
    /\ entity_index[entity].archetype_id \in DOMAIN archetypes

\* The archetype the record of a recorded entity references.
ArchetypeOf(entity) == archetypes[entity_index[entity].archetype_id]

\* The type set of an archetype.
TypeSet(archetype) == Range(archetype.types)

\* What the properties mean by "the entity has a component of type t": the
\* entity is recorded in an archetype whose type set has t.  This is not the
\* answer of Storage::has_entity_component, which looks up the entity id as a
\* row of the column and is modelled by has_entity_component; the two differ
\* whenever the entity id is not below the length of the column.
HasType(entity, t) == Recorded(entity) /\ t \in TypeSet(ArchetypeOf(entity))

\* The four fields of Storage are what they were.
StorageUnchanged ==
    UNCHANGED <<archetypes, component_index, entity_index, archetype_id_counter>>

\* The cell at `row` (from 0) of the column of type t of an archetype of the
\* table after the step exists and holds `value` for `entity`.
HoldsAfter(archetype_id, t, row, entity, value) ==
    /\ archetype_id \in DOMAIN archetypes'
    /\ LET columns == archetypes'[archetype_id].component_types
           p == ColumnPosition(columns, t)
       IN  /\ p # 0
           /\ row >= 0
           /\ row < ColLen(columns[p])
           /\ columns[p].data[row + 1] = [value |-> value, owner |-> entity]

----------------------------------------------------------------------------
\* C1: for every entity in the entity index, the recorded row is strictly less
\* than the length of every column of the archetype the record references.
C1_RowWithinEveryColumn ==
    \A entity \in DOMAIN entity_index :
        Recorded(entity) =>
            \A i \in 1 .. Len(ArchetypeOf(entity).component_types) :
                entity_index[entity].entity_row <
                    ColLen(ArchetypeOf(entity).component_types[i])

\* C2: after every completed call, all columns of every archetype in the
\* archetype table have the same length.
C2_ColumnsOfEqualLength ==
    \A id \in DOMAIN archetypes :
        \A i, j \in 1 .. Len(archetypes[id].component_types) :
            ColLen(archetypes[id].component_types[i]) =
                ColLen(archetypes[id].component_types[j])

\* C3: for every live entity and every type of its archetype, the cell at the
\* recorded row of that type's column holds the value most recently attached
\* to (or written through a mutable query for) that entity and type; row k of
\* every column of an archetype belongs to one and the same entity.
C3_RowHoldsOwnLatestValue ==
    /\ \A entity \in DOMAIN entity_index :
          Recorded(entity) =>
              \A i \in 1 .. Len(ArchetypeOf(entity).component_types) :
                  LET column == ArchetypeOf(entity).component_types[i]
                      row == entity_index[entity].entity_row
                  IN  /\ row < ColLen(column)
                      /\ column.data[row + 1].owner = entity
                      /\ attached[entity][column.ty] # None =>
                            column.data[row + 1].value = attached[entity][column.ty]
    /\ \A id \in DOMAIN archetypes :
          \A i, j \in 1 .. Len(archetypes[id].component_types) :
              \A r \in 1 .. Len(archetypes[id].component_types[i].data) :
                  r <= Len(archetypes[id].component_types[j].data) =>
                      archetypes[id].component_types[i].data[r].owner =
                          archetypes[id].component_types[j].data[r].owner

\* C4: no sequence of attach, detach, remove-entity and distinct-type query
\* calls reaches a fatal internal-consistency failure: the only panic there
\* can be is the usage error of a query with a repeated type.
C4_NoFatalFailure ==
    failure \in {NoPanic, MESSAGE_DUPLICATE_COMPONENT_TYPE}

\* C5: attaching a type the entity already has returns normally and leaves the
\* archetype table, the columns, the type index and the entity index as they
\* were.
C5_AttachIsIdempotent ==
    [][\A entity \in Entities, t \in TypeIds, value \in Values :
          (HasType(entity, t) /\ AddComponentToEntity(entity, t, value)) =>
              (failure' = NoPanic /\ StorageUnchanged)]_vars

\* The tuples of values a query is to yield for the requested types: one for
\* each live entity that has all of them attached, holding its own values.
ExpectedTuples(type_ids) ==
    [entity \in {e \in alive : \A k \in 1 .. Len(type_ids) :
                                  attached[e][type_ids[k]] # None} |->
        [k \in 1 .. Len(type_ids) |-> attached[entity][type_ids[k]]]]

\* The items a query yielded are exactly the expected tuples, each once.
YieldsExpected(items, type_ids) ==
    \A tuple \in [1 .. Len(type_ids) -> Values] :
        Cardinality({k \in 1 .. Len(items) : items[k].values = tuple}) =
            Cardinality({e \in DOMAIN ExpectedTuples(type_ids) :
                            ExpectedTuples(type_ids)[e] = tuple})

\* C6: in every reachable state a query for pairwise distinct types yields
\* exactly one tuple for each live entity whose type set contains all of them,
\* holding that entity's own values, and nothing else.
C6_QueryYieldsEachMatchingEntityOnce ==
    failure = NoPanic =>
        \A type_ids \in {l \in TypeLists : DistinctTypes(l)} :
            \A order \in VisitOrders(Self, type_ids, FALSE) :
                LET q == query(Self, type_ids, FALSE, order)
                IN  /\ q.panic = NoPanic
                    /\ YieldsExpected(q.items, type_ids)

\* C7: attaching a value of type T to an entity without record, when no
\* archetype of the table has the type set exactly {T}, creates a fresh
\* single-column archetype holding only that value, registers it in the
\* archetype table and the type index, and records the entity at row 0 of it.
C7_FirstAttachCreatesSingleColumnArchetype ==
    [][\A entity \in Entities, t \in TypeIds, value \in Values :
          (/\ entity \notin DOMAIN entity_index
           /\ \A id \in DOMAIN archetypes : TypeSet(archetypes[id]) # {t}
           /\ AddComponentToEntity(entity, t, value))
          =>
          (/\ failure' = NoPanic
           /\ archetype_id_counter \notin DOMAIN archetypes
           /\ archetype_id_counter \in DOMAIN archetypes'
           /\ archetypes'[archetype_id_counter] =
                 [id |-> archetype_id_counter,
                  component_types |->
                     <<[ty |-> t, data |-> <<[value |-> value, owner |-> entity]>>]>>,
                  types |-> <<t>>]
           /\ t \in DOMAIN component_index'
           /\ archetype_id_counter \in Range(component_index'[t])
           /\ entity \in DOMAIN entity_index'
           /\ entity_index'[entity] = EntityRecord(archetype_id_counter, 0))]_vars

\* C8: attaching a type T the entity does not have to an entity with a record
\* leaves the record at an archetype whose type set is the previous one plus
\* T, at the last row of that archetype, with the previously attached values
\* and the new value at that row.
C8_AttachMigratesToLastRow ==
    [][\A entity \in Entities, t \in TypeIds, value \in Values :
          (/\ Recorded(entity)
           /\ ~HasType(entity, t)
           /\ AddComponentToEntity(entity, t, value))
          =>
          (/\ failure' = NoPanic
           /\ entity \in DOMAIN entity_index'
           /\ entity_index'[entity].archetype_id \in DOMAIN archetypes'
           /\ LET target == archetypes'[entity_index'[entity].archetype_id]
                  row == entity_index'[entity].entity_row
              IN  /\ TypeSet(target) = TypeSet(ArchetypeOf(entity)) \cup {t}
                  /\ \A i \in 1 .. Len(target.component_types) :
                        row = ColLen(target.component_types[i]) - 1
                  /\ HoldsAfter(target.id, t, row, entity, value)
                  /\ \A previous \in TypeSet(ArchetypeOf(entity)) :
                        attached[entity][previous] # None =>
                            HoldsAfter(target.id, previous, row, entity,
                                       attached[entity][previous]))]_vars

\* C9: detaching a type T that the entity has leaves the record at an
\* archetype whose type set is exactly the previous one minus T, with the
\* values of all remaining types at the recorded row.
C9_DetachMigratesToReducedTypeSet ==
    [][\A entity \in Entities, t \in TypeIds :
          (/\ HasType(entity, t)
           /\ RemoveComponentFromEntity(entity, t))
          =>
          (/\ failure' = NoPanic
           /\ entity \in DOMAIN entity_index'
           /\ entity_index'[entity].archetype_id \in DOMAIN archetypes'
           /\ LET target == archetypes'[entity_index'[entity].archetype_id]
                  row == entity_index'[entity].entity_row
              IN  /\ TypeSet(target) = TypeSet(ArchetypeOf(entity)) \ {t}
                  /\ \A remaining \in TypeSet(ArchetypeOf(entity)) \ {t} :
                        attached[entity][remaining] # None =>
                            HoldsAfter(target.id, remaining, row, entity,
                                       attached[entity][remaining]))]_vars

\* The entities recorded at `row` of the archetype `archetype_id`.
RecordedAt(archetype_id, row) ==
    {e \in DOMAIN entity_index :
        entity_index[e] = EntityRecord(archetype_id, row)}

\* C10: remove_entity on an entity that is not the only one of its archetype
\* swap-removes its row from every column; if the row was not the last one,
\* exactly the entity recorded at the last row is recorded at the removed row
\* afterwards, and the records of all other entities are unchanged.
C10_RemoveEntityFixesTheMovedRecord ==
    [][\A entity \in Entities :
          (/\ Recorded(entity)
           /\ Len(ArchetypeOf(entity).component_types) > 0
           /\ \A i \in 1 .. Len(ArchetypeOf(entity).component_types) :
                 /\ ColLen(ArchetypeOf(entity).component_types[i]) > 1
                 /\ entity_index[entity].entity_row <
                       ColLen(ArchetypeOf(entity).component_types[i])
           /\ RemoveEntity(entity))
          =>
          LET record == entity_index[entity]
              source == ArchetypeOf(entity)
              last == ColLen(source.component_types[1]) - 1
              moved == IF record.entity_row < last
                       THEN RecordedAt(record.archetype_id, last)
                       ELSE {}
          IN  /\ failure' = NoPanic
              /\ record.archetype_id \in DOMAIN archetypes'
              /\ archetypes'[record.archetype_id].component_types =
                    [i \in 1 .. Len(source.component_types) |->
                        swap_remove(source.component_types[i], record.entity_row)]
              /\ DOMAIN entity_index' = (DOMAIN entity_index) \ {entity}
              /\ \A e \in DOMAIN entity_index' :
                    entity_index'[e] =
                        IF e \in moved
                        THEN EntityRecord(record.archetype_id, record.entity_row)
                        ELSE entity_index[e]]_vars

----------------------------------------------------------------------------
\* The entity is the only one recorded in its archetype.
SoleEntity(entity) ==
    /\ Recorded(entity)
    /\ \A e \in DOMAIN entity_index :
          entity_index[e].archetype_id = entity_index[entity].archetype_id =>
              e = entity

\* C11: remove_entity on the sole entity of its archetype removes that
\* archetype from the archetype table, removes its id from the type-index
\* list of every type it contains, deletes the index entries that become
\* empty, and leaves all other archetypes and their index entries in place.
C11_RemoveSoleEntityRemovesArchetype ==
    [][\A entity \in Entities :
          (SoleEntity(entity) /\ RemoveEntity(entity)) =>
              LET id == entity_index[entity].archetype_id
                  types == TypeSet(ArchetypeOf(entity))
              IN  /\ failure' = NoPanic
                  /\ archetypes' = Del(archetypes, id)
                  /\ DOMAIN component_index' =
                        {t \in DOMAIN component_index :
                            t \notin types \/ Range(component_index[t]) # {id}}
                  /\ \A t \in DOMAIN component_index' :
                        component_index'[t] =
                            IF t \in types THEN Retain(component_index[t], id)
                            ELSE component_index[t]]_vars

----------------------------------------------------------------------------
\* The storage was empty, two calls attached two different types to entity 0
\* and nothing else was called.
AttachedTwoTypesToEntityZero ==
    /\ calls = 2
    /\ failure = NoPanic
    /\ Cardinality({t \in TypeIds : attached[0][t] # None}) = 2

\* C12, as the specification states it: from the empty storage, attaching an
\* i32 and then an f32 to entity 0 and then remove_entity(0) leaves zero
\* archetypes and an empty type index.
C12_ScenarioLeavesNothing ==
    [][(AttachedTwoTypesToEntityZero /\ RemoveEntity(0)) =>
          (/\ failure' = NoPanic
           /\ archetypes' = EmptyMap
           /\ component_index' = EmptyMap)]_vars

\* C12, amended: from the empty storage, attaching an i32 and then an f32 to
\* entity 0 and then remove_entity(0) removes the two-type archetype only:
\* the emptied single-type archetype of the first attach (id 0) stays in the
\* table, the type index keeps the one entry of its type listing id 0, and
\* the entity index is empty.
C12_ScenarioLeavesFirstArchetype ==
    [][(AttachedTwoTypesToEntityZero /\ RemoveEntity(0)) =>
          (/\ failure' = NoPanic
           /\ DOMAIN archetypes = {0, 1}
           /\ Len(archetypes[0].types) = 1
           /\ Len(archetypes[1].types) = 2
           /\ DOMAIN archetypes' = {0}
           /\ archetypes'[0] =
                 [id |-> 0,
                  component_types |->
                     <<[ty |-> archetypes[0].types[1], data |-> <<>>]>>,
                  types |-> archetypes[0].types]
           /\ component_index' = Put(EmptyMap, archetypes[0].types[1], <<0>>)
           /\ entity_index' = EmptyMap)]_vars

\* C12 witness: three calls were made, two archetypes were created, no entity
\* is left, and the table holds the emptied first archetype alone.
C12_Witness ==
    /\ calls = 3
    /\ failure = NoPanic
    /\ archetype_id_counter = 2
    /\ alive = {}
    /\ entity_index = EmptyMap
    /\ DOMAIN archetypes = {0}
    /\ ColLen(archetypes[0].component_types[1]) = 0
    /\ Cardinality(DOMAIN component_index) = 1

----------------------------------------------------------------------------
\* The cell a query item was read from, in the storage value st.
ItemCell(st, item, t) ==
    LET columns == st.archetypes[item.archetype_id].component_types
    IN  columns[ColumnPosition(columns, t)].data[item.row + 1]

\* C13: detaching a type T from an entity that has it and attaching T again
\* with a fresh value, both calls returning, leaves the entity in an archetype
\* with the type set it had before the detach, and the entity's T value, at
\* its recorded row and as a query for T returns it, is the fresh value and
\* not the old one.
C13_ReattachHoldsTheFreshValue ==
    failure = NoPanic =>
        \A entity \in Entities, t \in TypeIds, value \in Values :
            LET detached == remove_component_from_entity(Self, entity, t)
                fresh == [value |-> value, owner |-> entity]
                reattached == add_component_to_entity(detached, entity, t, fresh)
            IN  (/\ HasType(entity, t)
                 /\ detached.panic = NoPanic
                 /\ reattached.panic = NoPanic)
                =>
                (/\ entity \in DOMAIN reattached.entity_index
                 /\ LET record == reattached.entity_index[entity]
                    IN  /\ record.archetype_id \in DOMAIN reattached.archetypes
                        /\ LET target == reattached.archetypes[record.archetype_id]
                               p == ColumnPosition(target.component_types, t)
                           IN  /\ TypeSet(target) = TypeSet(ArchetypeOf(entity))
                               /\ p # 0
                               /\ record.entity_row < ColLen(target.component_types[p])
                               /\ target.component_types[p].data[record.entity_row + 1]
                                     = fresh
                 /\ \A order \in VisitOrders(reattached, <<t>>, FALSE) :
                       LET q == query(reattached, <<t>>, FALSE, order)
                       IN  /\ q.panic = NoPanic
                           /\ \A k \in 1 .. Len(q.items) :
                                 ItemCell(reattached, q.items[k], t).owner = entity
                                     => q.items[k].values = <<value>>)

----------------------------------------------------------------------------
\* What the properties mean by "an archetype of exactly this type set": the
\* ids of the archetypes of the table whose type set is the set `types`.  This
\* is not the closure of find_archetype_id_by_type_ids, which compares the
\* length of a list that can name a type twice and is modelled by
\* TypeIdsMatch.
ArchetypesWithTypeSet(types) ==
    {id \in DOMAIN archetypes : TypeSet(archetypes[id]) = types}

\* C14: a remove_component_from_entity that detaches a type the entity has and
\* moves the entity, while the table holds an archetype whose type set is
\* exactly the reduced type set, moves the entity into such an archetype and
\* registers no new archetype: a new one is derived only when there is none.
C14_DetachReusesExistingArchetype ==
    [][\A entity \in Entities, t \in TypeIds :
          (/\ HasType(entity, t)
           /\ ArchetypesWithTypeSet(TypeSet(ArchetypeOf(entity)) \ {t}) # {}
           /\ RemoveComponentFromEntity(entity, t)
           /\ failure' = NoPanic
           /\ entity_index' # entity_index)
          =>
          (/\ entity \in DOMAIN entity_index'
           /\ entity_index'[entity].archetype_id
                 \in ArchetypesWithTypeSet(TypeSet(ArchetypeOf(entity)) \ {t})
           /\ DOMAIN archetypes' = DOMAIN archetypes
           /\ archetype_id_counter' = archetype_id_counter)]_vars

----------------------------------------------------------------------------
\* The type set add_component_to_entity wants for the entity: the types of its
\* archetype, none for an entity without record, and the attached type.
WantedOnAttach(entity, t) ==
    (IF Recorded(entity) THEN TypeSet(ArchetypeOf(entity)) ELSE {}) \cup {t}

\* The step is an add_component_to_entity(entity, value) call, value of type
\* t, that returned.
AddReturned(entity, t, value) ==
    /\ failure' = NoPanic
    /\ entity \in alive'
    /\ attached'[entity][t] # None
    /\ ret' = <<>>
    /\ AddComponentToEntity(entity, t, value)

\* C15: an add_component_to_entity that attaches a type the entity does not
\* have and returns moves the entity into an archetype that was already in
\* the table and whose type set is exactly the wanted type set, when there is
\* one, and registers no archetype then; it derives and registers a new
\* archetype, with the wanted type set, only when there is none.
C15_AttachReusesExistingArchetype ==
    [][\A entity \in Entities, t \in TypeIds, value \in Values :
          (/\ Recorded(entity) \/ entity \notin DOMAIN entity_index
           /\ ~HasType(entity, t)
           /\ AddReturned(entity, t, value))
          =>
          (/\ entity \in DOMAIN entity_index'
           /\ IF ArchetypesWithTypeSet(WantedOnAttach(entity, t)) # {}
              THEN /\ entity_index'[entity].archetype_id
                         \in ArchetypesWithTypeSet(WantedOnAttach(entity, t))
                   /\ DOMAIN archetypes' = DOMAIN archetypes
                   /\ archetype_id_counter' = archetype_id_counter
              ELSE /\ entity_index'[entity].archetype_id = archetype_id_counter
                   /\ DOMAIN archetypes' =
                         (DOMAIN archetypes) \cup {archetype_id_counter}
                   /\ TypeSet(archetypes'[archetype_id_counter]) =
                         WantedOnAttach(entity, t)
                   /\ archetype_id_counter' = archetype_id_counter + 1)]_vars

\* C15 witness: two entities were given the same two types by four calls and
\* are recorded in one and the same two-type archetype; the four calls
\* registered two archetypes, not three.
C15_Witness ==
    /\ calls = 4
    /\ failure = NoPanic
    /\ archetype_id_counter = 2
    /\ \E e1, e2 \in Entities :
          /\ e1 # e2
          /\ Recorded(e1)
          /\ Recorded(e2)
          /\ entity_index[e1].archetype_id = entity_index[e2].archetype_id
          /\ Cardinality(TypeSet(ArchetypeOf(e1))) = 2
          /\ \A t \in TypeSet(ArchetypeOf(e1)) :
                attached[e1][t] # None /\ attached[e2][t] # None

----------------------------------------------------------------------------
\* C16: remove_component_from_entity for a type the entity does not have, or
\* for an entity without record, returns without error and leaves the
\* archetype table, the columns, the type index and the entity index as they
\* were.  The entity does not have the type when the archetype of its record
\* has no column of the type, or, for a record whose archetype is no longer in
\* the table, when no component of the type is attached to the entity.
\* Checked under SpecAfterRemoval, where a call can follow the removal that
\* leaves such a record and can name a type no entity ever had.
C16_DetachOfMissingTypeIsNoOp ==
    [][\A entity \in Entities, t \in AllTypeIds :
          (/\ \/ entity \notin DOMAIN entity_index
              \/ Recorded(entity) /\ t \notin TypeSet(ArchetypeOf(entity))
              \/ /\ entity \in DOMAIN entity_index
                 /\ ~Recorded(entity)
                 /\ attached[entity][t] = None
           /\ RemoveComponentFromEntity(entity, t))
          =>
          (failure' = NoPanic /\ StorageUnchanged)]_vars

----------------------------------------------------------------------------
\* The step is a remove_component_from_entity::<t>(entity, _) call that
\* returned.
RemoveReturned(entity, t) ==
    /\ failure' = NoPanic
    /\ ret' = <<>>
    /\ alive' = alive
    /\ RemoveComponentFromEntity(entity, t)

\* Every archetype id of the table and every archetype id the type index
\* lists under a type is still there after the step.
ArchetypesStayRegistered ==
    /\ (DOMAIN archetypes) \subseteq (DOMAIN archetypes')
    /\ \A t \in DOMAIN component_index :
          /\ t \in DOMAIN component_index'
          /\ Range(component_index[t]) \subseteq Range(component_index'[t])

\* C17: neither add_component_to_entity nor remove_component_from_entity ever
\* removes an archetype from the archetype table or an archetype id from the
\* type index, even when the archetype the entity leaves becomes empty: the
\* set of registered archetypes after a call that returned contains the set
\* before it, so the number of archetypes never decreases.
C17_AttachAndDetachKeepArchetypes ==
    [][\A entity \in Entities, t \in TypeIds :
          (\/ RemoveReturned(entity, t)
           \/ \E value \in Values : AddReturned(entity, t, value))
          =>
          (/\ ArchetypesStayRegistered
           /\ Cardinality(DOMAIN archetypes') >= Cardinality(DOMAIN archetypes))]_vars

\* C17 witness: an attach or a detach moved the only entity of an archetype
\* away: the archetype is in the table with all its columns empty and the
\* type index still lists it under each of its types.
C17_Witness ==
    /\ failure = NoPanic
    /\ calls >= 2
    /\ \E id \in DOMAIN archetypes :
          /\ \A i \in 1 .. Len(archetypes[id].component_types) :
                ColLen(archetypes[id].component_types[i]) = 0
          /\ \A t \in TypeSet(archetypes[id]) :
                /\ t \in DOMAIN component_index
                /\ id \in Range(component_index[t])
          /\ \A e \in DOMAIN entity_index : entity_index[e].archetype_id # id

----------------------------------------------------------------------------
\* C18: detaching the only component of an entity completes without fatal
\* failure and leaves the entity recorded in an archetype of the table whose
\* type set is empty.
C18_DetachOfOnlyComponentLeavesEmptyTypeSet ==
    [][\A entity \in Entities, t \in TypeIds :
          (/\ Recorded(entity)
           /\ TypeSet(ArchetypeOf(entity)) = {t}
           /\ RemoveComponentFromEntity(entity, t))
          =>
          (/\ failure' = NoPanic
           /\ entity \in DOMAIN entity_index'
           /\ entity_index'[entity].archetype_id \in DOMAIN archetypes'
           /\ TypeSet(archetypes'[entity_index'[entity].archetype_id]) = {})]_vars

----------------------------------------------------------------------------
\* C19: remove_entity on an entity id that has no record in the entity index
\* returns and leaves the archetype table, the columns, the type index and
\* the entity index as they were.
C19_RemoveUnknownEntityIsNoOp ==
    [][\A entity \in Entities :
          (entity \notin DOMAIN entity_index /\ RemoveEntity(entity)) =>
              (failure' = NoPanic /\ StorageUnchanged)]_vars

\* C19 witness: one entity was given a component by the first call, a second
\* call returned, and the storage is as the first call made it, another
\* entity id having no record.
C19_Witness ==
    /\ calls = 2
    /\ failure = NoPanic
    /\ ret = <<>>
    /\ archetype_id_counter = 1
    /\ Cardinality(DOMAIN entity_index) = 1
    /\ alive = DOMAIN entity_index
    /\ \E entity \in Entities : entity \notin DOMAIN entity_index
    /\ \A e \in DOMAIN entity_index :
          /\ entity_index[e] = EntityRecord(0, 0)
          /\ 0 \in DOMAIN archetypes
          /\ \E t \in TypeIds : attached[e][t] # None

----------------------------------------------------------------------------
\* C20: a query_two / query_three / query_four (and _mut) for pairwise
\* distinct types yields, and in every tuple it yields the i-th element is
\* the value of the column of the i-th requested type at the row of the
\* tuple, for every permutation of the requested types, whatever the order of
\* the columns in the archetype.
C20_TupleFollowsRequestedOrder ==
    failure = NoPanic =>
        \A type_ids \in {l \in TypeLists : Len(l) >= 2 /\ DistinctTypes(l)} :
            \A mutable \in BOOLEAN :
                \A order \in VisitOrders(Self, type_ids, mutable) :
                    LET q == query(Self, type_ids, mutable, order)
                    IN  /\ q.panic = NoPanic
                        /\ \A k \in 1 .. Len(q.items) :
                              /\ Len(q.items[k].values) = Len(type_ids)
                              /\ \A i \in 1 .. Len(type_ids) :
                                    q.items[k].values[i] =
                                        ItemCell(Self, q.items[k], type_ids[i]).value

\* C20 witness: a query for the types <<2, 1>> returned a tuple from an
\* archetype whose columns are in the order 1, 2 and hold different values at
\* the row: the first element is the value of type 2, the second of type 1.
C20_Witness ==
    /\ failure = NoPanic
    /\ \E k \in 1 .. Len(ret) :
          /\ Len(ret[k].values) = 2
          /\ ret[k].archetype_id \in DOMAIN archetypes
          /\ archetypes[ret[k].archetype_id].types = <<1, 2>>
          /\ ret[k].values[1] = ItemCell(Self, ret[k], 2).value
          /\ ret[k].values[2] = ItemCell(Self, ret[k], 1).value
          /\ ret[k].values[1] # ret[k].values[2]

----------------------------------------------------------------------------
\* No live entity has all the types of the list: none by the attach history
\* and none by the type set of the archetype its record references.
NoEntityHasAll(type_ids) ==
    /\ \A e \in alive : \E k \in 1 .. Len(type_ids) : attached[e][type_ids[k]] = None
    /\ \A e \in Entities : \E k \in 1 .. Len(type_ids) : ~HasType(e, type_ids[k])

\* C21: in every reachable state a query, immutable or mutable, for pairwise
\* distinct types that no live entity has in full, a type never attached to
\* anything included, yields an empty sequence.
C21_QueryOfUnheldTypesIsEmpty ==
    failure = NoPanic =>
        \A type_ids \in {l \in TypeLists : DistinctTypes(l)} :
            NoEntityHasAll(type_ids) =>
                \A mutable \in BOOLEAN :
                    \A order \in VisitOrders(Self, type_ids, mutable) :
                        LET q == query(Self, type_ids, mutable, order)
                        IN  q.panic = NoPanic /\ q.items = <<>>

----------------------------------------------------------------------------
\* The lists of two or more requested types with a type repeated.
RepeatedTypeLists ==
    {l \in TypeLists : Len(l) >= 2 /\ \E i, j \in 1 .. Len(l) : i # j /\ l[i] = l[j]}

\* C22: in every storage state, the empty storage included, a query with two
\* or more requested types two of which are identical is rejected with the
\* fatal usage error, and no archetype is visited before.
C22_RepeatedTypeIsRejected ==
    failure \in {NoPanic, MESSAGE_DUPLICATE_COMPONENT_TYPE} =>
        \A type_ids \in RepeatedTypeLists :
            \A mutable \in BOOLEAN :
                /\ VisitOrders(Self, type_ids, mutable) = {<<>>}
                /\ \A order \in VisitOrders(Self, type_ids, mutable) :
                      query(Self, type_ids, mutable, order) =
                          [panic |-> MESSAGE_DUPLICATE_COMPONENT_TYPE,
                           items |-> <<>>]

\* C22 witness: a query with a repeated type was made on a storage that held
\* entities, after at least two other calls, and the program ended with the
\* usage error.
C22_Witness ==
    /\ failure = MESSAGE_DUPLICATE_COMPONENT_TYPE
    /\ calls >= 3

----------------------------------------------------------------------------
\* The archetypes of the table that match a query: their type set has every
\* requested type.
MatchingArchetypes(type_ids) ==
    {id \in DOMAIN archetypes : Range(type_ids) \subseteq TypeSet(archetypes[id])}

\* The position (from 1) of a column in the columns of its archetype.
PositionOf(archetype, column) ==
    CHOOSE p \in 1 .. Len(archetype.component_types) :
        archetype.component_types[p] = column

\* The columns of an archetype that a query zips, by position, one for each
\* place of the tuple: query_one_mut takes the column that downcasts to the
\* type, the other queries the first columns of the filtered, sorted iterator.
ColumnsTaken(archetype, type_ids) ==
    IF Len(type_ids) = 1
    THEN <<ColumnPosition(archetype.component_types, type_ids[1])>>
    ELSE [k \in 1 .. Len(type_ids) |->
            PositionOf(archetype,
                       iter_archetype_components_by_type_ids(archetype, type_ids)[k])]

\* The storage cells (archetype, column, row) behind the references of the
\* tuples, tuple after tuple and place after place.
CellsYielded(items, type_ids) ==
    [i \in 1 .. Len(items) * Len(type_ids) |->
        LET item == items[((i - 1) \div Len(type_ids)) + 1]
            place == ((i - 1) % Len(type_ids)) + 1
        IN  <<item.archetype_id,
              ColumnsTaken(archetypes[item.archetype_id], type_ids)[place],
              item.row>>]

\* C23: within one mutable query call for pairwise distinct types no storage
\* cell (archetype, column, row) is yielded more than once.  The call
\* returns; every matching archetype of the table is visited exactly once and
\* no other archetype is visited; within a visited archetype the column of
\* every requested type is taken exactly once; and no two references of the
\* tuples yielded point to the same cell, so they never alias.
C23_MutableQueryYieldsEachCellOnce ==
    failure = NoPanic =>
        \A type_ids \in {l \in TypeLists : DistinctTypes(l)} :
            \A order \in VisitOrders(Self, type_ids, TRUE) :
                LET q == query(Self, type_ids, TRUE, order)
                    cells == CellsYielded(q.items, type_ids)
                IN  /\ q.panic = NoPanic
                    /\ \A id \in MatchingArchetypes(type_ids) :
                          Cardinality({i \in 1 .. Len(order) : order[i] = id}) = 1
                    /\ Range(order) \subseteq MatchingArchetypes(type_ids)
                    /\ \A id \in Range(order) :
                          LET taken == ColumnsTaken(archetypes[id], type_ids)
                          IN  \A k \in 1 .. Len(type_ids) :
                                  Cardinality(
                                    {place \in 1 .. Len(taken) :
                                        /\ taken[place] # 0
                                        /\ archetypes[id].component_types[taken[place]].ty
                                              = type_ids[k]}) = 1
                    /\ \A k \in 1 .. Len(q.items) :
                          q.items[k].archetype_id \in Range(order)
                    /\ \A i, j \in 1 .. Len(cells) : cells[i] = cells[j] => i = j

\* C23 witness: a mutable query for one type yielded three or more tuples
\* from two or more archetypes and a new value was written through each.
C23_Witness ==
    /\ failure = NoPanic
    /\ Len(ret) >= 3
    /\ \E k, l \in 1 .. Len(ret) :
          ret[k].archetype_id # ret[l].archetype_id
    /\ \E value \in Values :
          \A k \in 1 .. Len(ret) :
              /\ ret[k].archetype_id \in DOMAIN archetypes
              /\ \E i \in 1 .. Len(archetypes[ret[k].archetype_id].component_types) :
                    LET column == archetypes[ret[k].archetype_id].component_types[i]
                    IN  /\ ret[k].row < ColLen(column)
                        /\ column.data[ret[k].row + 1].value = value
                        /\ ret[k].values # <<value>>

----------------------------------------------------------------------------
\* The storage value after the step.
SelfAfter ==
    [archetypes |-> archetypes',
     component_index |-> component_index',
     entity_index |-> entity_index',
     archetype_id_counter |-> archetype_id_counter',
     panic |-> NoPanic]

\* An archetype with the values of its cells left out: its id, its types and,
\* for each column, the element type and the owner of each row.
Shape(archetype) ==
    [id |-> archetype.id,
     types |-> archetype.types,
     columns |-> [i \in 1 .. Len(archetype.component_types) |->
                    [ty |-> archetype.component_types[i].ty,
                     owners |-> [r \in 1 .. ColLen(archetype.component_types[i]) |->
                                   archetype.component_types[i].data[r].owner]]]]

\* The step changed nothing but values of cells.
OnlyValuesChanged ==
    /\ DOMAIN archetypes' = DOMAIN archetypes
    /\ \A id \in DOMAIN archetypes : Shape(archetypes'[id]) = Shape(archetypes[id])
    /\ UNCHANGED <<component_index, entity_index, archetype_id_counter>>

\* The lists that request the types of type_ids in some order.
RequestOrders(type_ids) ==
    {l \in TypeLists : Len(l) = Len(type_ids) /\ Range(l) = Range(type_ids)}

\* The lists of pairwise distinct requested types.
DistinctTypeLists == {l \in TypeLists : DistinctTypes(l)}

\* The step is a mutable query for type_ids whose caller wrote `value` through
\* every tuple, or that panicked.
MutQueried(type_ids, value) ==
    /\ \/ failure' # NoPanic
       \/ /\ alive' = alive
          /\ entity_index' = entity_index
          /\ IF ret' = <<>> THEN archetypes' = archetypes
             ELSE /\ Len(ret'[1].values) = Len(type_ids)
                  /\ LET columns ==
                            archetypes'[ret'[1].archetype_id].component_types
                         p == ColumnPosition(columns, type_ids[1])
                     IN  /\ p # 0
                         /\ ret'[1].row < ColLen(columns[p])
                         /\ columns[p].data[ret'[1].row + 1].value = value
          /\ \E order \in VisitOrders(Self, type_ids, TRUE) :
                query(Self, type_ids, TRUE, order).items = ret'
    /\ QueryMut(type_ids, value)

\* C24: a mutable query for pairwise distinct types returns, changes only
\* values of cells (archetype membership, column lengths, the type index and
\* the entity index are as before), and the value written through its tuples
\* is what the next query for the same types, in whatever order they are
\* requested, returns in each of its tuples, one tuple per tuple written.
C24_WrittenValuesAreReadBack ==
    [][\A type_ids \in DistinctTypeLists, value \in Values :
          MutQueried(type_ids, value)
          =>
          (/\ failure' = NoPanic
           /\ OnlyValuesChanged
           /\ \A later \in RequestOrders(type_ids), mutable \in BOOLEAN :
                 \A order \in VisitOrders(SelfAfter, later, mutable) :
                     LET q == query(SelfAfter, later, mutable, order)
                     IN  /\ q.panic = NoPanic
                         /\ Len(q.items) = Len(ret')
                         /\ \A k \in 1 .. Len(q.items) :
                               q.items[k].values =
                                   [i \in 1 .. Len(later) |-> value])]_vars

\* C24 witness: a mutable query for two types wrote a value through a tuple
\* that held two other, different values before.
C24_Witness ==
    /\ failure = NoPanic
    /\ \E k \in 1 .. Len(ret) :
          /\ Len(ret[k].values) = 2
          /\ ret[k].values[1] # ret[k].values[2]
          /\ ret[k].archetype_id \in DOMAIN archetypes
          /\ \E value \in Values :
                /\ ItemCell(Self, ret[k], 1).value = value
                /\ ItemCell(Self, ret[k], 2).value = value

----------------------------------------------------------------------------
\* C25: in every reachable state the type index is exact: an archetype id is
\* in the index list of type t if and only if that archetype is in the
\* archetype table and t is in its type set; no index list is empty and none
\* holds an id twice.
C25_TypeIndexIsExact ==
    failure = NoPanic =>
        /\ \A t \in DOMAIN component_index :
              /\ component_index[t] # <<>>
              /\ \A i, j \in 1 .. Len(component_index[t]) :
                    component_index[t][i] = component_index[t][j] => i = j
              /\ \A i \in 1 .. Len(component_index[t]) :
                    /\ component_index[t][i] \in DOMAIN archetypes
                    /\ t \in TypeSet(archetypes[component_index[t][i]])
        /\ \A id \in DOMAIN archetypes :
              \A t \in TypeSet(archetypes[id]) :
                  /\ t \in DOMAIN component_index
                  /\ id \in Range(component_index[t])

\* C25 witness: archetypes were registered and one was removed; the index has
\* an entry that lists two archetypes and another type has no entry.
C25_Witness ==
    /\ failure = NoPanic
    /\ archetype_id_counter > Cardinality(DOMAIN archetypes)
    /\ \E t \in DOMAIN component_index : Len(component_index[t]) >= 2
    /\ \E t \in TypeIds : t \notin DOMAIN component_index

----------------------------------------------------------------------------
\* C26: archetype ids are never reused.  The id counter never decreases, also
\* when archetypes are removed or the last archetype is removed and the
\* storage emptied; every archetype of the table is stored under its own id,
\* below the counter; and an archetype a call registers gets an id that is
\* not below the counter before the call, so that it is greater than every id
\* registered before.
C26_ArchetypeIdsAreNeverReused ==
    [][failure' = NoPanic =>
          /\ archetype_id_counter' >= archetype_id_counter
          /\ \A id \in DOMAIN archetypes' :
                /\ archetypes'[id].id = id
                /\ id < archetype_id_counter'
                /\ id \notin DOMAIN archetypes => id >= archetype_id_counter]_vars

\* C26 witness: the storage was emptied by the removal of its last archetype
\* and an archetype registered afterwards is stored under an id above the
\* ids used before.
C26_Witness ==
    /\ failure = NoPanic
    /\ calls = 3
    /\ archetype_id_counter = 2
    /\ DOMAIN archetypes = {1}
    /\ archetypes[1].id = 1
    /\ Cardinality(alive) = 1

----------------------------------------------------------------------------
\* C27: every archetype of the table, whether created as a fresh single
\* column, derived by adding a type or derived by removing one, has a
\* strictly sorted, duplicate-free type list and a column list of the same
\* length in which column i has the element type types[i].
C27_TypesSortedAndColumnsAligned ==
    failure = NoPanic =>
        \A id \in DOMAIN archetypes :
            LET a == archetypes[id]
            IN  /\ \A i, j \in 1 .. Len(a.types) : i < j => a.types[i] < a.types[j]
                /\ Len(a.component_types) = Len(a.types)
                /\ \A i \in 1 .. Len(a.types) : a.component_types[i].ty = a.types[i]

\* C27 witness: the table holds a fresh single-column archetype of the
\* greatest type, an archetype derived from it by adding a smaller type, and
\* an archetype derived from that one by removing a type.
C27_Witness ==
    /\ failure = NoPanic
    /\ calls = 3
    /\ DOMAIN archetypes = {0, 1, 2}
    /\ archetypes[0].types = <<NumTypes>>
    /\ Len(archetypes[1].types) = 2
    /\ archetypes[1].types[2] = NumTypes
    /\ Len(archetypes[2].types) = 1

----
\* C28  After every call that returned, an entity has a record in the entity
\* index exactly when a component was attached to it and remove_entity has
\* not been called on it since; a remove_entity(e) that returned deleted the
\* record of e and the record of no other entity.
C28_RecordIffAttachedAndNotRemoved ==
    [][failure' = NoPanic =>
          /\ DOMAIN entity_index' = alive'
          /\ \A entity \in Entities :
                 (alive' = alive \ {entity} /\ entity \in alive) =>
                     DOMAIN entity_index' = DOMAIN entity_index \ {entity}]_vars

\* C28 witness: two archetypes were registered and three calls were made, the
\* last of them a remove_entity that removed the archetype of its entity; the
\* other entity still has its record.
C28_Witness ==
    /\ failure = NoPanic
    /\ calls = 3
    /\ archetype_id_counter = 2
    /\ Cardinality(DOMAIN archetypes) = 1
    /\ Cardinality(alive) = 1
    /\ DOMAIN entity_index = alive
    /\ \A e \in alive : Recorded(e)

----
\* The step moved the record of the entity to another archetype.
MigratedOut(entity) ==
    /\ Recorded(entity)
    /\ entity \in DOMAIN entity_index'
    /\ entity_index'[entity].archetype_id # entity_index[entity].archetype_id

\* The recorded row of the entity is a row of every column of its archetype
\* and not the last row of any.
NotInLastRow(entity) ==
    \A i \in 1 .. Len(ArchetypeOf(entity).component_types) :
        entity_index[entity].entity_row <
            ColLen(ArchetypeOf(entity).component_types[i]) - 1

\* After the step the record of the entity references a row that exists in
\* every column of its archetype and holds the data of the entity.
OwnRowAfter(entity) ==
    /\ entity_index'[entity].archetype_id \in DOMAIN archetypes'
    /\ LET columns == archetypes'[entity_index'[entity].archetype_id].component_types
           row == entity_index'[entity].entity_row
       IN  \A i \in 1 .. Len(columns) :
               /\ row < ColLen(columns[i])
               /\ columns[i].data[row + 1].owner = entity

\* C29  When add_component_to_entity or remove_component_from_entity moves an
\* entity out of an archetype in which it was not in the last row, the entity
\* that was recorded at the last row is recorded at the vacated row afterwards,
\* and every entity still recorded in the source archetype has a recorded row
\* that exists and holds its own data.
C29_MigrationFixesTheSwappedRecord ==
    [][\A entity \in Entities :
          (/\ failure' = NoPanic
           /\ MigratedOut(entity)
           /\ NotInLastRow(entity)
           /\ \/ \E t \in TypeIds, value \in Values : AddReturned(entity, t, value)
              \/ \E t \in TypeIds : RemoveReturned(entity, t))
          =>
          LET record == entity_index[entity]
              last == ColLen(ArchetypeOf(entity).component_types[1]) - 1
          IN  /\ \A e \in RecordedAt(record.archetype_id, last) :
                     entity_index'[e] =
                         EntityRecord(record.archetype_id, record.entity_row)
              /\ \A e \in DOMAIN entity_index' :
                     entity_index'[e].archetype_id = record.archetype_id =>
                         OwnRowAfter(e)]_vars

----
\* The rows align_and_migrate_archetypes is applied to: the rows of the longest
\* column there can be and one row beyond.
MigrationRows == 0 .. (MaxEntity + 1)

\* The data of the column of type t of an archetype that has the type.
ColumnData(archetype, t) ==
    archetype.component_types[ColumnPosition(archetype.component_types, t)].data

\* `after` is `before` without its element at `row` (from 0), the last
\* element of `before` in its place.
IsSwapRemoved(before, after, row) ==
    /\ Len(after) = Len(before) - 1
    /\ \A k \in 1 .. Len(after) :
          after[k] = IF k = row + 1 THEN before[Len(before)] ELSE before[k]

\* What align_and_migrate_archetypes(source, target, row) has to leave.
MigratesSharedColumns(source, target, row) ==
    LET m == align_and_migrate_archetypes(source, target, row)
    IN  /\ m.panic = NoPanic
        /\ m.source.types = source.types
        /\ m.target.types = target.types
        /\ Len(m.source.component_types) = Len(source.component_types)
        /\ Len(m.target.component_types) = Len(target.component_types)
        /\ \A t \in TypeSet(source) \ TypeSet(target) :
              ColumnData(m.source, t) = ColumnData(source, t)
        /\ \A t \in TypeSet(target) \ TypeSet(source) :
              ColumnData(m.target, t) = ColumnData(target, t)
        /\ \A t \in TypeSet(source) \cap TypeSet(target) :
              IF Len(ColumnData(source, t)) > row
              THEN /\ IsSwapRemoved(ColumnData(source, t), ColumnData(m.source, t), row)
                   /\ ColumnData(m.target, t) =
                         Append(ColumnData(target, t), ColumnData(source, t)[row + 1])
              ELSE /\ ColumnData(m.source, t) = ColumnData(source, t)
                   /\ ColumnData(m.target, t) = ColumnData(target, t)

\* C30  align_and_migrate_archetypes(source, target, row) on two archetypes of
\* the table: every column of a type of both loses its element at `row` by
\* swap-remove in the source and gains it at the end in the target, a shared
\* column of at most `row` elements is skipped without failure, and the columns
\* of the types of only one of the two stay as they are.
C30_MigrationMovesSharedColumnsOnly ==
    failure = NoPanic =>
        \A source_id, target_id \in DOMAIN archetypes :
            source_id # target_id =>
                \A row \in MigrationRows :
                    MigratesSharedColumns(archetypes[source_id],
                                          archetypes[target_id], row)

\* C30 witness: the table holds a source archetype with a column of three
\* elements and a target archetype that shares this type and has a type of
\* its own, so that rows 0 to 2 are moved and row 3 is skipped.
C30_Witness ==
    /\ failure = NoPanic
    /\ \E source_id, target_id \in DOMAIN archetypes :
          /\ source_id # target_id
          /\ TypeSet(archetypes[target_id]) \ TypeSet(archetypes[source_id]) # {}
          /\ \E t \in TypeSet(archetypes[source_id]) \cap TypeSet(archetypes[target_id]) :
                Len(ColumnData(archetypes[source_id], t)) = 3

----
\* What Archetype::new_from_add::<t>(source, id) has to return.
AddsEmptyColumnOfType(source, t, id) ==
    LET r == new_from_add(source, t, id)
    IN  IF t \in TypeSet(source)
        THEN r.panic = PanicAssertNewFromAdd
        ELSE /\ r.panic = NoPanic
             /\ r.archetype.id = id
             /\ Range(r.archetype.types) = TypeSet(source) \cup {t}
             /\ Len(r.archetype.types) = Len(source.types) + 1
             /\ \A i, j \in 1 .. Len(r.archetype.types) :
                   i < j => r.archetype.types[i] < r.archetype.types[j]
             /\ Len(r.archetype.component_types) = Len(r.archetype.types)
             /\ \A i \in 1 .. Len(r.archetype.types) :
                   /\ r.archetype.component_types[i].ty = r.archetype.types[i]
                   /\ r.archetype.component_types[i].data = <<>>

\* C31  Archetype::new_from_add(source, newType) on an archetype of the table:
\* the result has the types of the source and newType, sorted, one column per
\* type in the same order, every column empty whatever the source holds; it
\* fails with the assertion when newType is a type of the source.
C31_NewFromAddExtendsTheTypeSet ==
    failure = NoPanic =>
        \A id \in DOMAIN archetypes : \A t \in TypeIds :
            AddsEmptyColumnOfType(archetypes[id], t, archetype_id_counter)

\* C31 witness: the table holds a non-empty archetype of the greatest type
\* alone, to which a smaller type can be added, and a non-empty archetype that
\* has this type already.
C31_Witness ==
    /\ failure = NoPanic
    /\ \E id, other \in DOMAIN archetypes :
          /\ archetypes[id].types = <<NumTypes>>
          /\ ColLen(archetypes[id].component_types[1]) >= 1
          /\ Len(archetypes[other].types) = 2
          /\ ColLen(archetypes[other].component_types[1]) >= 1

----
\* The sequence without the elements equal to `dropped`, the others in
\* their order.
RECURSIVE Without(_, _)
Without(s, dropped) ==
    IF s = <<>> THEN <<>>
    ELSE IF Head(s) = dropped THEN Without(Tail(s), dropped)
    ELSE <<Head(s)>> \o Without(Tail(s), dropped)

\* What Archetype::new_from_remove::<t>(source, id) has to return.
RemovesColumnOfType(source, t, id) ==
    LET r == new_from_remove(source, t, id)
    IN  IF t \notin TypeSet(source)
        THEN r.panic = PanicComponentTypeNotFound
        ELSE /\ r.panic = NoPanic
             /\ r.archetype.id = id
             /\ r.archetype.types = Without(source.types, t)
             /\ Len(r.archetype.component_types) = Len(r.archetype.types)
             /\ \A i \in 1 .. Len(r.archetype.types) :
                   /\ r.archetype.component_types[i].ty = r.archetype.types[i]
                   /\ r.archetype.component_types[i].data = <<>>

\* C32  Archetype::new_from_remove(source, removedType) on an archetype of the
\* table: the result has the types of the source without removedType in the
\* order of the source, exactly the columns of these types, all of them empty;
\* it fails with "Component type not found." when removedType is not a type of
\* the source.
C32_NewFromRemoveReducesTheTypeSet ==
    failure = NoPanic =>
        \A id \in DOMAIN archetypes : \A t \in TypeIds :
            RemovesColumnOfType(archetypes[id], t, archetype_id_counter)

\* C32 witness: the table holds a non-empty archetype of two types, from which
\* either type can be removed, and a non-empty archetype of one type, which
\* lacks the other.
C32_Witness ==
    /\ failure = NoPanic
    /\ \E id, other \in DOMAIN archetypes :
          /\ Len(archetypes[id].types) = 2
          /\ \A i \in 1 .. 2 : ColLen(archetypes[id].component_types[i]) >= 1
          /\ Len(archetypes[other].types) = 1
          /\ ColLen(archetypes[other].component_types[1]) >= 1

----
\* The archetype ids the type index lists under every type of the list; a
\* type without entry lists none.
ListedUnderAll(type_ids) ==
    {id \in 0 .. archetype_id_counter :
        \A i \in 1 .. Len(type_ids) :
            /\ type_ids[i] \in DOMAIN component_index
            /\ \E k \in 1 .. Len(component_index[type_ids[i]]) :
                  component_index[type_ids[i]][k] = id}

\* C33  get_archetype_ids_for_types returns exactly the ids the type index
\* lists under every requested type, none for a list with a type that has no
\* entry, the same ids for every order of the requested types, and every Vec
\* it can return holds each id once.
C33_CommonArchetypesAreTheIntersection ==
    failure = NoPanic =>
        \A type_ids \in TypeLists :
            /\ get_archetype_ids_for_types(Self, type_ids) = ListedUnderAll(type_ids)
            /\ \A other \in TypeLists :
                  Range(other) = Range(type_ids) =>
                      get_archetype_ids_for_types(Self, other) =
                          get_archetype_ids_for_types(Self, type_ids)
            /\ \A ids \in Orders(get_archetype_ids_for_types(Self, type_ids)) :
                  \A i, j \in 1 .. Len(ids) : i # j => ids[i] # ids[j]

\* C33 witness: each of two types is listed under an archetype the other is
\* not listed under, and both are listed under a third.
C33_Witness ==
    /\ failure = NoPanic
    /\ \E s, t \in TypeIds :
          /\ ListedUnderAll(<<s>>) \ ListedUnderAll(<<t>>) # {}
          /\ ListedUnderAll(<<t>>) \ ListedUnderAll(<<s>>) # {}
          /\ ListedUnderAll(<<s, t>>) # {}

----
\* The number of rows a query for type_ids yields from an archetype that has
\* the types: the length of its shortest requested column.
RowsYielded(archetype, type_ids) ==
    Min({Len(ColumnData(archetype, type_ids[i])) : i \in 1 .. Len(type_ids)})

\* The items come archetype by archetype, the items of one archetype next to
\* each other, rows 0, 1, ... up to the number of rows the archetype yields.
RowsGroupedByArchetype(items, type_ids) ==
    /\ \A k \in 1 .. Len(items) :
          items[k].row =
              IF k > 1 /\ items[k - 1].archetype_id = items[k].archetype_id
              THEN items[k - 1].row + 1
              ELSE 0
    /\ \A k, l \in 1 .. Len(items) :
          (k < l /\ items[k].archetype_id = items[l].archetype_id) =>
              \A m \in k .. l : items[m].archetype_id = items[k].archetype_id
    /\ \A id \in get_archetype_ids_for_types(Self, type_ids) :
          Cardinality({k \in 1 .. Len(items) : items[k].archetype_id = id}) =
              RowsYielded(archetypes[id], type_ids)
    /\ \A k \in 1 .. Len(items) :
          items[k].archetype_id \in get_archetype_ids_for_types(Self, type_ids)

\* The archetype ids of the items never decrease.
InAscendingArchetypeOrder(items) ==
    \A k, l \in 1 .. Len(items) :
        k < l => items[k].archetype_id <= items[l].archetype_id

\* C34  Every query, immutable or mutable, yields the rows of the matching
\* archetypes concatenated in ascending archetype-id order, rows 0 .. length
\* within each archetype.
C34_RowsInAscendingArchetypeOrder ==
    failure = NoPanic =>
        \A type_ids \in DistinctTypeLists, mutable \in BOOLEAN :
            \A order \in VisitOrders(Self, type_ids, mutable) :
                LET q == query(Self, type_ids, mutable, order)
                IN  /\ q.panic = NoPanic
                    /\ RowsGroupedByArchetype(q.items, type_ids)
                    /\ InAscendingArchetypeOrder(q.items)

\* C34 (amended)  Every query yields the rows of the matching archetypes
\* archetype by archetype, each matching archetype once and in one piece,
\* rows 0 .. length within each archetype; the archetypes come in ascending
\* archetype-id order in query_one, which follows the list of the type index,
\* and in an unspecified order in the other queries.
C34_RowsGroupedByArchetypeInSomeOrder ==
    failure = NoPanic =>
        \A type_ids \in DistinctTypeLists, mutable \in BOOLEAN :
            \A order \in VisitOrders(Self, type_ids, mutable) :
                LET q == query(Self, type_ids, mutable, order)
                IN  /\ q.panic = NoPanic
                    /\ RowsGroupedByArchetype(q.items, type_ids)
                    /\ (Len(type_ids) = 1 /\ ~mutable) =>
                          InAscendingArchetypeOrder(q.items)

\* C34 witness: a type is held in two archetypes, the one of the smaller id
\* with two rows or more and the other with one row or more, so that a query
\* for the type yields three items or more from two archetypes.
C34_Witness ==
    /\ failure = NoPanic
    /\ \E t \in TypeIds : \E id, other \in get_archetype_ids_for_types(Self, <<t>>) :
          /\ id < other
          /\ Len(ColumnData(archetypes[id], t)) >= 2
          /\ Len(ColumnData(archetypes[other], t)) >= 1

----
\* flat_map of iterate_components_base over the archetypes visited, in the
\* order given: the closure of the macro for every archetype, whatever N.
RECURSIVE FlatMapBase(_, _, _, _)
FlatMapBase(st, order, n, type_ids) ==
    IF n = 0 THEN [panic |-> NoPanic, items |-> <<>>]
    ELSE LET before == FlatMapBase(st, order, n - 1, type_ids)
             here == ArchetypeItems(st.archetypes[order[n]], type_ids)
         IN  IF before.panic # NoPanic THEN before
             ELSE IF here.panic # NoPanic THEN [panic |-> here.panic, items |-> <<>>]
             ELSE [panic |-> NoPanic, items |-> before.items \o here.items]

\* iterate_components!(storage, types...): the N-type algorithm, for any N
\* from 1, iterated to the end, visiting archetypes in `order`.
iterate_components(st, type_ids, order) ==
    IF ~DistinctTypes(type_ids)
    THEN [panic |-> MESSAGE_DUPLICATE_COMPONENT_TYPE, items |-> <<>>]
    ELSE IF \E i \in 1 .. Len(order) : order[i] \notin DOMAIN st.archetypes
    THEN [panic |-> PanicArchetypeNotFound, items |-> <<>>]
    ELSE FlatMapBase(st, order, Len(order), type_ids)

\* The (archetype, row) tuples of the items, each with the number of items
\* that visit it.
Visited(items) ==
    LET Tuple(k) == <<items[k].archetype_id, items[k].row>>
    IN  [p \in {Tuple(k) : k \in 1 .. Len(items)} |->
            Cardinality({k \in 1 .. Len(items) : Tuple(k) = p})]

\* C35  For every list of pairwise distinct requested types, the mutable query
\* visits the same (archetype, row) tuples the same number of times as the
\* immutable query of the same types, whatever order either visits the
\* archetypes in, and query_one visits the same tuples the same number of
\* times as the N-type algorithm run with this one type.
C35_VariantsVisitTheSameRows ==
    failure = NoPanic =>
        /\ \A type_ids \in DistinctTypeLists :
              \A order \in VisitOrders(Self, type_ids, FALSE),
                 order_mut \in VisitOrders(Self, type_ids, TRUE) :
                  LET q == query(Self, type_ids, FALSE, order)
                      q_mut == query(Self, type_ids, TRUE, order_mut)
                  IN  /\ q.panic = NoPanic
                      /\ q_mut.panic = NoPanic
                      /\ Visited(q_mut.items) = Visited(q.items)
        /\ \A t \in TypeIds :
              \A order \in VisitOrders(Self, <<t>>, FALSE),
                 order_base \in Orders(get_archetype_ids_for_types(Self, <<t>>)) :
                  LET q == query(Self, <<t>>, FALSE, order)
                      q_base == iterate_components(Self, <<t>>, order_base)
                  IN  /\ q.panic = NoPanic
                      /\ q_base.panic = NoPanic
                      /\ Visited(q_base.items) = Visited(q.items)

\* C35 witness: a type is held in two archetypes with one row or more each and
\* the table holds an archetype without the type, so that the queries for the
\* type visit several archetypes and leave one out.
C35_Witness ==
    /\ failure = NoPanic
    /\ \E t \in TypeIds :
          /\ \E id, other \in get_archetype_ids_for_types(Self, <<t>>) :
                /\ id # other
                /\ Len(ColumnData(archetypes[id], t)) >= 1
                /\ Len(ColumnData(archetypes[other], t)) >= 1
          /\ \E id \in DOMAIN archetypes : t \notin TypeSet(archetypes[id])

----
\* C36  After every call that returned, the archetype id of every record of
\* the entity index is the id of an archetype of the archetype table.
C36_RecordsReferenceTableArchetypes ==
    failure = NoPanic =>
        \A entity \in DOMAIN entity_index :
            entity_index[entity].archetype_id \in DOMAIN archetypes

----
\* C37  After every call that returned, no two distinct entities of the
\* entity index have the same record (archetype id, row).
C37_RecordsAreDistinct ==
    failure = NoPanic =>
        \A entity, other \in DOMAIN entity_index :
            entity_index[entity] = entity_index[other] => entity = other

----
\* The entities whose record references the archetype.
RecordedIn(archetype_id) ==
    {e \in DOMAIN entity_index : entity_index[e].archetype_id = archetype_id}

\* C38  After every call that returned, every column of every archetype of
\* the table has as many elements as there are entities recorded in the
\* archetype, and every element belongs to an entity recorded there: no value
\* of an entity that was migrated away, detached or removed stays behind.
C38_ColumnsHoldOnlyLiveEntities ==
    failure = NoPanic =>
        \A id \in DOMAIN archetypes :
            \A i \in 1 .. Len(archetypes[id].component_types) :
                LET column == archetypes[id].component_types[i]
                IN  /\ ColLen(column) = Cardinality(RecordedIn(id))
                    /\ \A r \in 1 .. ColLen(column) :
                          column.data[r].owner \in RecordedIn(id)

----
\* C39  After every call that returned, no two archetypes of the archetype
\* table have the same type set.
C39_TypeSetsAreDistinct ==
    failure = NoPanic =>
        \A id, other \in DOMAIN archetypes :
            TypeSet(archetypes[id]) = TypeSet(archetypes[other]) => id = other

====
